---- MODULE Spec2Model ----
(***************************************************************************)
(* Model of the solar quotation service: the field computation             *)
(* (computeFields and its financial helpers), the PDF assembly             *)
(* (mergePdfBuffers) and the POST /render/cotizacion request handler.      *)
(***************************************************************************)
EXTENDS Integers, Sequences, FiniteSets, TLC

VARIABLES
    pc,          \* position of the request handler
    inputData,   \* req.body.data || {}
    debug,       \* req.query.debug === '1'
    data,        \* result of computeFields(inputData)
    files,       \* templates directory: annex name -> stored file
    rpc,         \* position inside the running renderUrlToPdfBuffer call
    rurl,        \* url of the running renderUrlToPdfBuffer call
    rerr,        \* the running render call has a pending exception
    rpdf,        \* value the running render call is about to return
    open,        \* browser sessions launched and not yet closed
    pdfIndex, pdfIndex2, pdfIndex3,
    annexAfter2, annexAfter3,
    merged,      \* result of mergePdfBuffers
    response,    \* what was sent on res
    failed,      \* which step threw, "" when none
    log          \* order of the steps taken

handlerVars == <<pc, inputData, debug, data, files, rpc, rurl, rerr, rpdf, open,
                 pdfIndex, pdfIndex2, pdfIndex3, annexAfter2, annexAfter3,
                 merged, response, failed, log>>

\* the arguments and results of the functions that are applied on their own
VARIABLES mergeIn, mergeOut, parseIn, parseOf, parseOut, parsePc,
          fieldsIn, fieldsBy, fieldsOut, irrFlows, irrPc, newton, bisect, irrOut,
          payFlows, payOut, potIn, potBy, potOut

mergeVars == <<mergeIn, mergeOut>>
parseVars == <<parseIn, parseOf, parseOut, parsePc>>
fieldVars == <<fieldsIn, fieldsBy, fieldsOut>>
irrVars == <<irrFlows, irrPc, newton, bisect, irrOut>>
payVars == <<payFlows, payOut>>
potVars == <<potIn, potBy, potOut>>

vars == <<handlerVars, mergeVars, parseVars, fieldVars, irrVars, payVars, potVars>>

notHandler == <<mergeVars, parseVars, fieldVars, irrVars, payVars, potVars>>
notMerge == <<handlerVars, parseVars, fieldVars, irrVars, payVars, potVars>>
notParse == <<handlerVars, mergeVars, fieldVars, irrVars, payVars, potVars>>
notFields == <<handlerVars, mergeVars, parseVars, irrVars, payVars, potVars>>
notIrr == <<handlerVars, mergeVars, parseVars, fieldVars, payVars, potVars>>
notPay == <<handlerVars, mergeVars, parseVars, fieldVars, irrVars, potVars>>
notPot == <<handlerVars, mergeVars, parseVars, fieldVars, irrVars, payVars>>

-----------------------------------------------------------------------------
(* Bounds of the model. *)

\* a rendered page template prints to 1..MaxRenderPages pages
MaxRenderPages == 2
\* a stored annex holds 1..MaxAnnexPages pages
MaxAnnexPages == 2

-----------------------------------------------------------------------------
(* JavaScript numbers.  A number is NaN, +/-Infinity or a finite decimal    *)
(* floating-point value s * (h * 10^8 + l) * 10^e whose mantissa has 16     *)
(* digits in two halves (h = l = 0, or H8 \div 10 <= h < H8, and l < H8);   *)
(* every operation rounds its result to such a value, as the IEEE           *)
(* operations of the source round theirs to 53 bits (15.95 digits).  The    *)
(* exponent is unbounded and signed zero is not modelled.                   *)

H8 == 10 ^ 8
B4 == 10 ^ 4

Pow10(n) == 10 ^ n

NaN == [k |-> "nan", s |-> 1, h |-> 0, l |-> 0, e |-> 0]
Zero == [k |-> "fin", s |-> 1, h |-> 0, l |-> 0, e |-> 0]
Inf(sg) == [k |-> "inf", s |-> sg, h |-> 0, l |-> 0, e |-> 0]

isNaN(x) == x.k = "nan"
isFinite(x) == x.k = "fin"
IsZero(x) == x.k = "fin" /\ x.h = 0

\* the finite number sg * (h * 10^8 + l) * 10^e, rounded to 16 digits
RECURSIVE Normalize(_, _, _, _)
Normalize(sg, h, l, e) ==
    IF l >= H8 THEN Normalize(sg, h + (l \div H8), l % H8, e)
    ELSE IF h = 0 /\ l = 0 THEN Zero
    ELSE IF h >= H8
         THEN Normalize(sg, h \div 10,
                        (h % 10) * (H8 \div 10) + l \div 10
                          + (IF (l % 10) >= 5 THEN 1 ELSE 0), e + 1)
    ELSE IF h = 0 THEN Normalize(sg, l, 0, e - 8)
    ELSE IF h < B4
         THEN Normalize(sg, h * B4 + l \div B4, (l % B4) * B4, e - 4)
    ELSE IF h < H8 \div 10
         THEN Normalize(sg, h * 10 + l \div (H8 \div 10),
                        (l % (H8 \div 10)) * 10, e - 1)
    ELSE [k |-> "fin", s |-> sg, h |-> h, l |-> l, e |-> e]

\* the decimal literal n / 10^d, n an integer of the model
Lit(n, d) == Normalize(IF n < 0 THEN -1 ELSE 1, 0, IF n < 0 THEN -n ELSE n, -d)
\* the number n
Num(n) == Lit(n, 0)

Neg(x) == IF x.k = "nan" \/ IsZero(x) THEN x ELSE [x EXCEPT !.s = -x.s]
Abs(x) == IF x.k = "nan" THEN x ELSE [x EXCEPT !.s = 1]

\* the product of two mantissas by four-digit limbs.  MulLimbs forms the
\* column sums of the limb products, MulCarry3..MulCarry6 propagate the
\* carries upwards, MulTop rounds the leading 16 digits.
MulTop(sg, e, c6, p5, p4, p3) ==
    IF c6 < H8 \div 10
    THEN Normalize(sg, c6 * 10 + p5 \div 1000,
                   (p5 % 1000) * (B4 * 10) + p4 * 10 + p3 \div 1000
                     + (IF (p3 % 1000) >= 500 THEN 1 ELSE 0),
                   e + 15)
    ELSE Normalize(sg, c6, p5 * B4 + p4 + (IF p3 >= 5000 THEN 1 ELSE 0), e + 16)
MulCarry6(sg, e, s6, c5, p4, p3) ==
    MulTop(sg, e, s6 + c5 \div B4, c5 % B4, p4, p3)
MulCarry5(sg, e, s6, s5, c4, p3) ==
    MulCarry6(sg, e, s6, s5 + c4 \div B4, c4 % B4, p3)
MulCarry4(sg, e, s6, s5, s4, c3) ==
    MulCarry5(sg, e, s6, s5, s4 + c3 \div B4, c3 % B4)
MulCarry3(sg, e, s6, s5, s4, s3, c2) ==
    MulCarry4(sg, e, s6, s5, s4, s3 + c2 \div B4)
MulLimbs(sg, e, a3, a2, a1, a0, b3, b2, b1, b0) ==
    MulCarry3(sg, e, a3 * b3, a3 * b2 + a2 * b3, a3 * b1 + a2 * b2 + a1 * b3,
              a3 * b0 + a2 * b1 + a1 * b2 + a0 * b3,
              a2 * b0 + a1 * b1 + a0 * b2
                + (a1 * b0 + a0 * b1 + (a0 * b0) \div B4) \div B4)

Mul(x, y) ==
    IF x.k = "nan" \/ y.k = "nan" THEN NaN
    ELSE IF x.k = "inf" \/ y.k = "inf"
         THEN IF IsZero(x) \/ IsZero(y) THEN NaN ELSE Inf(x.s * y.s)
    ELSE IF x.h = 0 \/ y.h = 0 THEN Zero
    ELSE MulLimbs(x.s * y.s, x.e + y.e,
                  x.h \div B4, x.h % B4, x.l \div B4, x.l % B4,
                  y.h \div B4, y.h % B4, y.l \div B4, y.l % B4)

\* long division by the divisor (dh, dl).  The state q of the division holds
\* the quotient so far (qh, ql), the remainder (rh, rl) and the number n of
\* quotient digits still to produce.  DivDigit estimates the next digit from
\* the leading halves, DivEstimate corrects it, DivStep subtracts and
\* DivShift moves to the next digit.
DivShift(qh, ql, sh, sl, n) ==
    [qh |-> qh + ql \div H8, ql |-> ql % H8,
     rh |-> sh * 10 + sl \div (H8 \div 10), rl |-> (sl % (H8 \div 10)) * 10,
     n |-> n - 1]
DivStep(q, sh, sl, d) ==
    DivShift(q.qh * 10, q.ql * 10 + d,
             IF sl < 0 THEN sh - 1 ELSE sh, IF sl < 0 THEN sl + H8 ELSE sl, q.n)
DivSubtract(q, dh, dl, d) ==
    DivStep(q, q.rh - dh * d - (dl * d) \div H8, q.rl - ((dl * d) % H8), d)
DivEstimate(q, dh, dl, est) ==
    DivSubtract(q, dh, dl,
                IF dh * est + (dl * est) \div H8 > q.rh
                   \/ (dh * est + (dl * est) \div H8 = q.rh
                       /\ ((dl * est) % H8) > q.rl)
                THEN est - 1 ELSE est)
DivDigit(q, dh, dl) ==
    DivEstimate(q, dh, dl, IF q.rh \div dh > 9 THEN 9 ELSE q.rh \div dh)

\* at most k more digits of the division
RECURSIVE DivDigits(_, _, _, _)
DivDigits(q, dh, dl, k) ==
    IF q.n = 0 THEN q
    ELSE IF k = 1 THEN DivDigit(q, dh, dl)
    ELSE DivDigits(DivDigits(q, dh, dl, k \div 2), dh, dl, k - k \div 2)

DivLength == 17

DivQuotient(sg, q, e) == Normalize(sg, q.qh, q.ql, e)

Div(x, y) ==
    IF x.k = "nan" \/ y.k = "nan" THEN NaN
    ELSE IF x.k = "inf" THEN (IF y.k = "inf" THEN NaN ELSE Inf(x.s * y.s))
    ELSE IF y.k = "inf" THEN Zero
    ELSE IF y.h = 0 THEN (IF x.h = 0 THEN NaN ELSE Inf(x.s))
    ELSE IF x.h = 0 THEN Zero
    ELSE DivQuotient(x.s * y.s,
                     DivDigits([qh |-> 0, ql |-> 0, rh |-> x.h, rl |-> x.l,
                                n |-> DivLength], y.h, y.l, DivLength),
                     x.e - y.e - (DivLength - 1))

\* the mantissa (h, l) without its last k digits, k >= 0
ShiftRight(h, l, k) ==
    IF k = 0 THEN <<h, l>>
    ELSE IF k < 8 THEN <<h \div Pow10(k),
                         (h % Pow10(k)) * Pow10(8 - k) + l \div Pow10(k)>>
    ELSE IF k < 16 THEN <<0, h \div Pow10(k - 8)>>
    ELSE <<0, 0>>

\* (xh, xl) - (yh, yl) or the reverse, whichever is not negative, with the
\* sign of the larger
AddDiff(xs, ys, e, xh, xl, yh, yl, xBig) ==
    IF xBig
    THEN Normalize(xs, IF xl >= yl THEN xh - yh ELSE xh - yh - 1,
                   IF xl >= yl THEN xl - yl ELSE xl + H8 - yl, e)
    ELSE Normalize(ys, IF yl >= xl THEN yh - xh ELSE yh - xh - 1,
                   IF yl >= xl THEN yl - xl ELSE yl + H8 - xl, e)

AddMant(xs, ys, e, xh, xl, Y) ==
    IF xs = ys THEN Normalize(xs, xh + Y[1], xl + Y[2], e)
    ELSE AddDiff(xs, ys, e, xh, xl, Y[1], Y[2],
                 xh > Y[1] \/ (xh = Y[1] /\ xl >= Y[2]))

\* x + y for finite non-zero x, y with x.e >= y.e; one guard digit
AddAligned(x, y) ==
    AddMant(x.s, y.s, x.e - 1,
            x.h * 10 + x.l \div (H8 \div 10), (x.l % (H8 \div 10)) * 10,
            IF x.e = y.e
            THEN <<y.h * 10 + y.l \div (H8 \div 10), (y.l % (H8 \div 10)) * 10>>
            ELSE ShiftRight(y.h, y.l, x.e - y.e - 1))

Add(x, y) ==
    IF x.k = "nan" \/ y.k = "nan" THEN NaN
    ELSE IF x.k = "inf"
         THEN (IF y.k = "inf" /\ y.s # x.s THEN NaN ELSE x)
    ELSE IF y.k = "inf" THEN y
    ELSE IF x.h = 0 THEN y
    ELSE IF y.h = 0 THEN x
    ELSE AddAligned(IF x.e >= y.e THEN x ELSE y, IF x.e >= y.e THEN y ELSE x)

Sub(x, y) == Add(x, Neg(y))

\* the sign of x: -1, 0, 1 (x not NaN)
Sgn(x) == IF IsZero(x) THEN 0 ELSE x.s

\* |x| < |y| for x, y not NaN
MagLt(x, y) ==
    IF x.k = "inf" THEN FALSE
    ELSE IF y.k = "inf" THEN TRUE
    ELSE IF y.h = 0 THEN FALSE
    ELSE IF x.h = 0 THEN TRUE
    ELSE x.e < y.e
         \/ (x.e = y.e /\ (x.h < y.h \/ (x.h = y.h /\ x.l < y.l)))

\* the comparisons of JavaScript: every comparison with NaN is false
Lt(x, y) ==
    /\ ~isNaN(x)
    /\ ~isNaN(y)
    /\ IF Sgn(x) # Sgn(y) THEN Sgn(x) < Sgn(y)
       ELSE IF Sgn(x) >= 0 THEN MagLt(x, y) ELSE MagLt(y, x)
Gt(x, y) == Lt(y, x)
Ge(x, y) == ~isNaN(x) /\ ~isNaN(y) /\ ~Lt(x, y)
Le(x, y) == Ge(y, x)
NumEq(x, y) == ~isNaN(x) /\ ~isNaN(y) /\ x = y

\* the integer part (h, l) of a finite number, as a number
IntPart(sg, q) == Normalize(sg, q[1], q[2], 0)
Trunc(x) == IF x.e >= 0 THEN x ELSE IntPart(x.s, ShiftRight(x.h, x.l, -x.e))
IsInteger(x) == x.k = "fin" /\ Trunc(x) = x

\* Math.floor, Math.ceil, Math.round (round half up: floor(x + 0.5))
FloorOf(x, t) == IF t = x \/ x.s = 1 THEN t ELSE Sub(t, Num(1))
MathFloor(x) == IF x.k # "fin" THEN x ELSE FloorOf(x, Trunc(x))
MathCeil(x) == Neg(MathFloor(Neg(x)))
MathRound(x) == IF x.k # "fin" \/ IsInteger(x) THEN x
                ELSE MathFloor(Add(x, Lit(5, 1)))

-----------------------------------------------------------------------------
(* JavaScript strings are sequences of one-character strings; JavaScript   *)
(* values are tagged records.                                              *)

DigitChars == <<"0", "1", "2", "3", "4", "5", "6", "7", "8", "9">>
IsDigit(c) == \E i \in 1..10 : DigitChars[i] = c
DigitVal(c) == (CHOOSE i \in 1..10 : DigitChars[i] = c) - 1
DigitChar(n) == DigitChars[n + 1]

\* the decimal digits of the natural number n
RECURSIVE NatDigits(_)
NatDigits(n) == IF n < 10 THEN <<DigitChar(n)>>
                ELSE Append(NatDigits(n \div 10), DigitChar(n % 10))

Zeros(n) == [i \in 1..n |-> "0"]

RECURSIVE StripTrailingZeros(_)
StripTrailingZeros(ds) ==
    IF ds # <<>> /\ ds[Len(ds)] = "0"
    THEN StripTrailingZeros(SubSeq(ds, 1, Len(ds) - 1)) ELSE ds

RECURSIVE StripLeadingZeros(_)
StripLeadingZeros(ds) ==
    IF ds # <<>> /\ ds[1] = "0" THEN StripLeadingZeros(Tail(ds)) ELSE ds

\* the value of a digit string of at most 8 digits
RECURSIVE DigitsNat(_)
DigitsNat(ds) == IF ds = <<>> THEN 0
                 ELSE DigitsNat(SubSeq(ds, 1, Len(ds) - 1)) * 10
                        + DigitVal(ds[Len(ds)])

\* the 16 digits of the mantissa of a finite non-zero number
MantDigits(x) ==
    LET ld == NatDigits(x.l)
    IN  NatDigits(x.h) \o Zeros(8 - Len(ld)) \o ld

\* the digit string ds plus one
RECURSIVE IncDigits(_)
IncDigits(ds) ==
    IF ds = <<>> THEN <<"1">>
    ELSE IF ds[Len(ds)] = "9"
         THEN Append(IncDigits(SubSeq(ds, 1, Len(ds) - 1)), "0")
    ELSE Append(SubSeq(ds, 1, Len(ds) - 1), DigitChar(DigitVal(ds[Len(ds)]) + 1))

Undefined == [t |-> "undef"]
Null == [t |-> "null"]
Str(cs) == [t |-> "str", s |-> cs]
NumV(d) == [t |-> "num", d |-> d]
Bool(b) == [t |-> "bool", b |-> b]
Obj(o) == [t |-> "obj", o |-> o]
EmptyStr == Str(<<>>)

\* obj[key] of a mapping held as a function: undefined when the key is absent
Get(o, key) == IF key \in DOMAIN o THEN o[key] ELSE Undefined
\* the assignment obj[key] = v
Put(o, key, v) == (key :> v) @@ o

\* ToBoolean
Truthy(v) ==
    CASE v.t = "undef" -> FALSE
      [] v.t = "null" -> FALSE
      [] v.t = "str" -> v.s # <<>>
      [] v.t = "num" -> ~(isNaN(v.d) \/ IsZero(v.d))
      [] v.t = "bool" -> v.b
      [] OTHER -> TRUE

\* the digits ds of a mantissa, n of them before the decimal point, in the
\* form of Number.prototype.toString: exponent notation from 1e21 up and
\* below 1e-6
DecimalForm(ds, n) ==
    IF Len(ds) <= n /\ n <= 21 THEN ds \o Zeros(n - Len(ds))
    ELSE IF 0 < n /\ n <= 21
         THEN SubSeq(ds, 1, n) \o <<".">> \o SubSeq(ds, n + 1, Len(ds))
    ELSE IF -6 < n /\ n <= 0 THEN <<"0", ".">> \o Zeros(-n) \o ds
    ELSE (IF Len(ds) = 1 THEN ds ELSE <<ds[1], ".">> \o Tail(ds))
         \o <<"e">> \o (IF n < 1 THEN <<"-">> ELSE <<"+">>)
         \o NatDigits(IF n < 1 THEN 1 - n ELSE n - 1)

\* Number.prototype.toString
NumberToString(x) ==
    IF x.k = "nan" THEN <<"N", "a", "N">>
    ELSE IF x.k = "inf"
         THEN (IF x.s < 0 THEN <<"-">> ELSE <<>>)
                \o <<"I", "n", "f", "i", "n", "i", "t", "y">>
    ELSE IF x.h = 0 THEN <<"0">>
    ELSE (IF x.s < 0 THEN <<"-">> ELSE <<>>)
           \o DecimalForm(StripTrailingZeros(MantDigits(x)), 16 + x.e)

\* String(v) raises a TypeError for a mapping that has a key "toString": the
\* value under it is no function (no value of a request body is), and the
\* inherited valueOf returns the mapping itself
StringRaises(v) == v.t = "obj" /\ "toString" \in DOMAIN v.o

\* String(v), for v on which it does not raise
JsString(v) ==
    CASE v.t = "str" -> v.s
      [] v.t = "num" -> NumberToString(v.d)
      [] v.t = "bool" -> (IF v.b THEN <<"t", "r", "u", "e">>
                          ELSE <<"f", "a", "l", "s", "e">>)
      [] v.t = "null" -> <<"n", "u", "l", "l">>
      [] v.t = "undef" -> <<"u", "n", "d", "e", "f", "i", "n", "e", "d">>
      [] OTHER -> <<"[", "o", "b", "j", "e", "c", "t", " ",
                    "O", "b", "j", "e", "c", "t", "]">>

\* s.replace(/[^0-9.-]/g, '')
StripNonNumeric(cs) == SelectSeq(cs, LAMBDA c : IsDigit(c) \/ c = "." \/ c = "-")

Count(cs, c) == Cardinality({i \in 1..Len(cs) : cs[i] = c})
IndexOf(cs, c) == IF Count(cs, c) = 0 THEN 0
                  ELSE CHOOSE i \in 1..Len(cs) :
                         cs[i] = c /\ \A j \in 1..(i - 1) : cs[j] # c

\* Number(s) for a string s of digits, dots and minus signs: 0 for the empty
\* string, NaN unless s is [-]digits[.digits] or [-].digits; the value keeps
\* the first 16 significant digits.  ParseBody splits at the dot, ParseParts
\* drops the leading zeros, ParseDigits converts the digits kept.
ParseDigits(neg, kept, exp) ==
    Normalize(IF neg THEN -1 ELSE 1,
              IF Len(kept) > 8 THEN DigitsNat(SubSeq(kept, 1, Len(kept) - 8)) ELSE 0,
              IF Len(kept) > 8 THEN DigitsNat(SubSeq(kept, Len(kept) - 7, Len(kept)))
              ELSE DigitsNat(kept),
              exp)
ParseSignificant(neg, sig, fpLen) ==
    IF Len(sig) > 16 THEN ParseDigits(neg, SubSeq(sig, 1, 16), Len(sig) - 16 - fpLen)
    ELSE ParseDigits(neg, sig, -fpLen)
ParseParts(neg, ip, fp) ==
    IF Len(ip) + Len(fp) = 0 THEN NaN
    ELSE ParseSignificant(neg, StripLeadingZeros(ip \o fp), Len(fp))
ParseBody(neg, body, dot) ==
    IF Count(body, "-") > 0 \/ Count(body, ".") > 1 THEN NaN
    ELSE IF dot = 0 THEN ParseParts(neg, body, <<>>)
    ELSE ParseParts(neg, SubSeq(body, 1, dot - 1), SubSeq(body, dot + 1, Len(body)))
ParseSigned(neg, body) == ParseBody(neg, body, IndexOf(body, "."))
StringToNumber(cs) ==
    IF cs = <<>> THEN Zero
    ELSE ParseSigned(cs[1] = "-", IF cs[1] = "-" THEN Tail(cs) ELSE cs)

\* the digits of the integer nearest to a number with mantissa digits ds,
\* keep of them before the decimal point
RoundAt(ds, keep) ==
    IF keep >= 16 THEN ds \o Zeros(keep - 16)
    ELSE IF keep < 0 THEN <<"0">>
    ELSE IF DigitVal(ds[keep + 1]) >= 5 THEN IncDigits(SubSeq(ds, 1, keep))
    ELSE IF keep = 0 THEN <<"0">>
    ELSE SubSeq(ds, 1, keep)

\* the digits of the integer nearest to |x| * 10^p, x finite
RoundedDigits(x, p) ==
    IF x.h = 0 THEN <<"0">> ELSE RoundAt(MantDigits(x), 16 + x.e + p)

\* the digits ds with zeros in front up to more than fd digits
PadFraction(ds, fd) ==
    IF Len(ds) <= fd THEN Zeros(fd + 1 - Len(ds)) \o ds ELSE ds

\* the digits ds with a decimal point before the last fd
FixedForm(ds, fd) ==
    SubSeq(ds, 1, Len(ds) - fd)
      \o (IF fd = 0 THEN <<>> ELSE <<".">> \o SubSeq(ds, Len(ds) - fd + 1, Len(ds)))

\* Number.prototype.toFixed(fd) of a finite number below 1e21
toFixed(x, fd) ==
    (IF x.s < 0 /\ x.h # 0 THEN <<"-">> ELSE <<>>)
      \o FixedForm(PadFraction(RoundedDigits(x, fd), fd), fd)

\* the integer digits ds in groups of three joined by "."
RECURSIVE GroupThousands(_)
GroupThousands(ds) ==
    IF Len(ds) <= 3 THEN ds
    ELSE GroupThousands(SubSeq(ds, 1, Len(ds) - 3))
           \o <<".">> \o SubSeq(ds, Len(ds) - 2, Len(ds))

\* the fraction digits fp after a decimal comma, none when there is none
FractionForm(fp) == IF fp = <<>> THEN <<>> ELSE <<",">> \o fp

\* the digits ds, the last maxFd of them the fraction: the integer digits
\* grouped, then at least minFd fraction digits and no trailing zero beyond
LocaleForm(ds, minFd, maxFd) ==
    GroupThousands(SubSeq(ds, 1, Len(ds) - maxFd))
      \o FractionForm(SubSeq(ds, Len(ds) - maxFd + 1, Len(ds) - maxFd + minFd)
                      \o StripTrailingZeros(SubSeq(ds, Len(ds) - maxFd + minFd + 1,
                                                   Len(ds))))

\* Number.prototype.toLocaleString('es-CO', {minimumFractionDigits: minFd,
\* maximumFractionDigits: maxFd}) of a finite number: "." groups the integer
\* digits in threes, "," is the decimal mark
LocaleString(x, minFd, maxFd) ==
    (IF x.s < 0 /\ x.h # 0 THEN <<"-">> ELSE <<>>)
      \o LocaleForm(PadFraction(RoundedDigits(x, maxFd), maxFd), minFd, maxFd)

\* n.toLocaleString('es-CO'): at most three fraction digits
toLocaleString(x) ==
    IF x.k = "nan" THEN <<"N", "a", "N">>
    ELSE IF x.k = "inf" THEN (IF x.s < 0 THEN <<"-", "oo">> ELSE <<"oo">>)
    ELSE LocaleString(x, 0, 3)

-----------------------------------------------------------------------------
(* Numeric parse and formatters. *)

\* the outcome of a call that raised instead of returning
Raised == [t |-> "raised", k |-> "raised"]

\* toNum(v); the same function is num(v) inside computeFields of server.js
toNum(v) ==
    IF v.t = "undef" \/ v.t = "null" \/ v = EmptyStr THEN NaN
    ELSE IF StringRaises(v) THEN Raised
    ELSE StringToNumber(StripNonNumeric(JsString(v)))

num(v) == toNum(v)

\* the formatted text of a parsed number, '' for NaN
FormatParsed(n) ==
    IF n = Raised THEN Raised
    ELSE IF isNaN(n) THEN EmptyStr
    ELSE Str(toLocaleString(n))

\* formatCO(v) of the financial variant; formatNum(v) of server.js is the same
formatCO(v) == FormatParsed(toNum(v))

formatNum(v) == formatCO(v)

\* formatCO(v) of the spreadsheet variant rounds to an integer first
formatCORound(v) == FormatParsed(MathRound(toNum(v)))

FormatDigits(n, digits) ==
    IF n = Raised THEN Raised
    ELSE IF isNaN(n) THEN EmptyStr
    ELSE Str(IF isFinite(n) THEN LocaleString(n, digits, digits)
             ELSE toLocaleString(n))

formatDecimal(v, digits) == FormatDigits(toNum(v), digits)

FormatPercent(n, digits) ==
    IF n = Raised THEN Raised
    ELSE IF isNaN(n) THEN EmptyStr
    ELSE Str((IF isFinite(n) THEN LocaleString(n, digits, digits)
              ELSE toLocaleString(n)) \o <<"%">>)

PercentOf(n) == IF n = Raised THEN Raised ELSE Mul(n, Num(100))

formatPercent(v, digits) == FormatPercent(PercentOf(toNum(v)), digits)

-----------------------------------------------------------------------------
(* Financial helpers: npv, irr, paybackYears.  Cash flows are sequences of *)
(* numbers; flows[t + 1] is the flow of year t.                            *)

\* flows.reduce of npv: the accumulator acc before the flow of year t, with
\* pw = Math.pow(1 + rate, t) carried as a running product of base = 1 + rate
NpvTerm(a, base, flows) ==
    [acc |-> Add(a.acc, Div(flows[a.t + 1], a.pw)),
     pw |-> Mul(a.pw, base), t |-> a.t + 1]

\* at most k more terms of the reduce
RECURSIVE NpvReduce(_, _, _, _)
NpvReduce(a, base, flows, k) ==
    IF a.t > Len(flows) - 1 THEN a
    ELSE IF k = 1 THEN NpvTerm(a, base, flows)
    ELSE NpvReduce(NpvReduce(a, base, flows, k \div 2), base, flows, k - k \div 2)

npv(rate, flows) ==
    NpvReduce([acc |-> Zero, pw |-> Num(1), t |-> 0], Add(Num(1), rate), flows,
              Len(flows)).acc

\* flows.reduce of dNPV, the derivative of npv with respect to the rate: the
\* term of year 0 is skipped, pw = Math.pow(1 + r, t + 1)
DNpvTerm(a, base, flows) ==
    [acc |-> Sub(a.acc, Div(Mul(Num(a.t), flows[a.t + 1]), a.pw)),
     pw |-> Mul(a.pw, base), t |-> a.t + 1]

RECURSIVE DNpvReduce(_, _, _, _)
DNpvReduce(a, base, flows, k) ==
    IF a.t > Len(flows) - 1 THEN a
    ELSE IF k = 1 THEN DNpvTerm(a, base, flows)
    ELSE DNpvReduce(DNpvReduce(a, base, flows, k \div 2), base, flows,
                    k - k \div 2)

DNpvBase(base, flows) ==
    DNpvReduce([acc |-> Zero, pw |-> Mul(base, base), t |-> 1], base, flows,
               Len(flows)).acc
dNPV(r, flows) == DNpvBase(Add(Num(1), r), flows)

maxIter == 100
maxBisect == 200
\* a tolerance of a tenth
tolLoose == Lit(1, 1)
tol == Lit(1, 7)
guess == Lit(1, 1)
derivEps == Lit(1, 12)
bracketLow == Lit(-9, 1)
bracketHigh == Num(5)

\* the state of the Newton-Raphson loop before its first iteration
NewtonStart == [st |-> "run", r |-> guess, rNext |-> NaN, i |-> 0]

\* one iteration of the Newton-Raphson loop from the state n: "brk" leaves
\* the loop, "ret" returns rNext (r is then still the previous iterate).  NewtonStep computes f and df, NewtonNext
\* tests df, NewtonMove tests rNext.
NewtonMove(n, rNext) ==
    IF ~isFinite(rNext) THEN [n EXCEPT !.st = "brk"]
    ELSE IF Lt(Abs(Sub(rNext, n.r)), tol)
         THEN [n EXCEPT !.st = "ret", !.rNext = rNext, !.i = n.i + 1]
    ELSE [n EXCEPT !.r = rNext, !.i = n.i + 1]
NewtonNext(n, f, df) ==
    IF Lt(Abs(df), derivEps) THEN [n EXCEPT !.st = "brk"]
    ELSE NewtonMove(n, Sub(n.r, Div(f, df)))
NewtonStep(flows, n) == NewtonNext(n, npv(n.r, flows), dNPV(n.r, flows))

\* a bracket that is accepted whatever the signs at its ends
bracketAlways(fLow, fHigh) ==
    [st |-> "run", low |-> bracketLow, high |-> bracketHigh,
     fLow |-> fLow, fHigh |-> fHigh, mid |-> NaN, i |-> 0]

\* the fallback's bracket; "nan" when npv has the same sign at both ends
BisectBracket(fLow, fHigh) ==
    [st |-> IF Gt(Mul(fLow, fHigh), Zero) THEN "nan" ELSE "run",
     low |-> bracketLow, high |-> bracketHigh,
     fLow |-> fLow, fHigh |-> fHigh, mid |-> NaN, i |-> 0]
BisectStart(flows) == BisectBracket(npv(bracketLow, flows), npv(bracketHigh, flows))

\* one halving of the bracket b: "ret" returns mid
BisectNext(b, mid, fMid) ==
    IF Lt(Abs(fMid), tol)
    THEN [b EXCEPT !.st = "ret", !.mid = mid, !.i = b.i + 1]
    ELSE IF Lt(Mul(b.fLow, fMid), Zero)
         THEN [b EXCEPT !.high = mid, !.fHigh = fMid, !.i = b.i + 1]
    ELSE [b EXCEPT !.low = mid, !.fLow = fMid, !.i = b.i + 1]
BisectMid(flows, b, mid) == BisectNext(b, mid, npv(mid, flows))
BisectStep(flows, b) == BisectMid(flows, b, Div(Add(b.low, b.high), Num(2)))

\* the Newton-Raphson loop run for at most k more iterations
RECURSIVE NewtonLoop(_, _, _)
NewtonLoop(flows, n, k) ==
    IF k = 0 \/ n.st # "run" THEN n
    ELSE IF k = 1 THEN NewtonStep(flows, n)
    ELSE NewtonLoop(flows, NewtonLoop(flows, n, k \div 2), k - k \div 2)

\* the bisection loop run for at most k more halvings
RECURSIVE BisectLoop(_, _, _)
BisectLoop(flows, b, k) ==
    IF k = 0 \/ b.st # "run" THEN b
    ELSE IF k = 1 THEN BisectStep(flows, b)
    ELSE BisectLoop(flows, BisectLoop(flows, b, k \div 2), k - k \div 2)

\* what irr returns after the bisection loop ended in the state b
BisectResult(b) == IF b.st = "ret" THEN b.mid ELSE NaN

\* what irr returns after the Newton-Raphson loop ended in the state n
NewtonResult(flows, n) ==
    IF n.st = "ret" THEN n.rNext
    ELSE BisectResult(BisectLoop(flows, BisectStart(flows), maxBisect))

\* irr(flows): a rate, or NaN
irr(flows) == NewtonResult(flows, NewtonLoop(flows, NewtonStart, maxIter))

\* no interpolation inside the year
wholeYears(frac) == Zero

\* Math.max(0, Math.min(1, frac))
Clamp01(frac) ==
    IF isNaN(frac) THEN NaN
    ELSE IF Lt(frac, Zero) THEN Zero
    ELSE IF Gt(frac, Num(1)) THEN Num(1)
    ELSE frac

\* the loop of paybackYears: p holds the running sum cum before year t;
\* "ret" returns val.  PaybackAt is the loop body with ft = flows[t] and c the
\* new running sum
PaybackAt(p, ft, c) ==
    IF Ge(c, Zero)
    THEN [st |-> "ret", cum |-> c, t |-> p.t,
          val |-> Add(Num(p.t - 1),
                      Clamp01(IF ~IsZero(ft) THEN Div(Sub(Zero, Sub(c, ft)), ft)
                              ELSE Zero))]
    ELSE [st |-> "run", cum |-> c, t |-> p.t + 1, val |-> NaN]
PaybackStep(p, flows) == PaybackAt(p, flows[p.t + 1], Add(p.cum, flows[p.t + 1]))

\* at most k more years of the loop
RECURSIVE PaybackLoop(_, _, _)
PaybackLoop(p, flows, k) ==
    IF p.st # "run" \/ p.t > Len(flows) - 1 THEN p
    ELSE IF k = 1 THEN PaybackStep(p, flows)
    ELSE PaybackLoop(PaybackLoop(p, flows, k \div 2), flows, k - k \div 2)

\* paybackYears(flows): NaN when the loop ends without returning
paybackYears(flows) ==
    PaybackLoop([st |-> "run", cum |-> Zero, t |-> 0, val |-> NaN], flows,
                Len(flows)).val

\* a || b
Or(a, b) == IF Truthy(a) THEN a ELSE b

-----------------------------------------------------------------------------
(* computeFields.  A mapping is a function from its keys to values; 'K' in *)
(* out is K \in DOMAIN out.  Each step of the function is an operator that *)
(* takes the mapping built so far and the constants computed so far.       *)

\* new Date().toLocaleDateString('es-CO', ...): the day of the request
Today == Str(<<"d", "d", "/", "m", "m", "/", "a", "a", "a", "a">>)

\* String(x) of a number x
NumStr(x) == Str(NumberToString(x))

\* isNaN(x) ? '' : String(x)
TextOf(x) == IF isNaN(x) THEN EmptyStr ELSE NumStr(x)

\* if (!('K' in out)) out.K = v
Default(out, key, v) == IF key \in DOMAIN out THEN out ELSE Put(out, key, v)

\* if (!out.FECHA) out.FECHA = today
DefaultFecha(out) ==
    IF ~Truthy(Get(out, "FECHA")) THEN Put(out, "FECHA", Today) ELSE out

\* the text of POTENCIA from pot, rounded to a whole number
potenciaWhole(pot) == IF isNaN(pot) THEN EmptyStr ELSE NumStr(MathRound(pot))

\* the text of POTENCIA from pot
PotenciaText(pot) ==
    IF isNaN(pot) THEN EmptyStr
    ELSE NumStr(Div(MathRound(Mul(pot, Num(100))), Num(100)))

\* POTENCIA when it is not in out: (ENERGIA * 1.2) / (4.2 * 30 * 0.81)
DefaultPotencia(out, ENERGIA) ==
    Default(out, "POTENCIA",
        PotenciaText(IF isNaN(ENERGIA) THEN NaN
                     ELSE Div(Mul(ENERGIA, Lit(12, 1)),
                              Mul(Mul(Lit(42, 1), Num(30)), Lit(81, 2)))))

\* PANELES, INVERSORES and INVERSION_TOTAL when they are not in out
DefaultSizing(out, POTENCIA) ==
    Default(Default(Default(out,
        "PANELES", TextOf(IF isNaN(POTENCIA) THEN NaN
                          ELSE MathCeil(Div(Mul(POTENCIA, Num(1000)), Num(645))))),
        "INVERSORES", TextOf(IF isNaN(POTENCIA) THEN NaN
                             ELSE MathCeil(Div(POTENCIA, Lit(125, 2))))),
        "INVERSION_TOTAL", TextOf(IF isNaN(POTENCIA) THEN NaN
                                  ELSE MathRound(Mul(POTENCIA, Num(3550000)))))

\* BENEFICIO_TRIBUTARIO when it is not in out
DefaultBeneficio(out, INVERSION_TOTAL) ==
    Default(out, "BENEFICIO_TRIBUTARIO",
        TextOf(IF isNaN(INVERSION_TOTAL) THEN NaN
               ELSE MathRound(Div(INVERSION_TOTAL, Num(2)))))

\* ENERGIA and FACTURA when they are not in out
DefaultBase(out, ENERGIA, FACTURA) ==
    Default(Default(out, "ENERGIA", TextOf(ENERGIA)), "FACTURA", TextOf(FACTURA))

\* out.K = f(out.K) for every key K of ks, f being formatCO/formatNum
FormatAll(out, ks) == [key \in ks |-> formatCO(Get(out, key))] @@ out

FormattedKeys == {"INVERSION_TOTAL", "BENEFICIO_TRIBUTARIO", "AHORRO_TOTAL",
                  "FACTURA", "ENERGIA", "PAGO1", "PAGO2", "PAGO3", "PAGO4",
                  "IVA_MATERIALES"}

-----------------------------------------------------------------------------
(* computeFields of server.js, the function the request handler calls.     *)

\* the keys whose input values computeFields of server.js can pass to String
NumKeys == {"ENERGIA", "FACTURA", "POTENCIA", "INVERSION_TOTAL",
            "BENEFICIO_TRIBUTARIO", "AHORRO_TOTAL", "PAGO1", "PAGO2", "PAGO3",
            "PAGO4", "IVA_MATERIALES"}

\* the fixed texts of TIR, BC, AHORRO_TOTAL and RECUPERACION_INVERSION
FixedDefaults(out) ==
    Default(Default(Default(Default(out,
        "TIR", Str(toFixed(Mul(Div(Lit(19, 2), Num(3)), Num(100)), 2) \o <<"%">>)),
        "BC", NumStr(Div(Num(5), Num(2)))),
        "AHORRO_TOTAL", NumStr(MathRound(Div(Num(250000000), Num(3))))),
        "RECUPERACION_INVERSION", NumStr(Div(Num(6), Num(2))))

\* the PAGOk rule: assigned when absent or ''
DefaultPago(out, key, INVERSION_TOTAL, share) ==
    IF key \notin DOMAIN out \/ out[key] = EmptyStr
    THEN Put(out, key, NumStr(MathRound(Mul(INVERSION_TOTAL, share))))
    ELSE out

DefaultPagos(out, INVERSION_TOTAL) ==
    IF isNaN(INVERSION_TOTAL) THEN out
    ELSE DefaultPago(DefaultPago(DefaultPago(DefaultPago(out,
            "PAGO1", INVERSION_TOTAL, Lit(30, 2)),
            "PAGO2", INVERSION_TOTAL, Lit(20, 2)),
            "PAGO3", INVERSION_TOTAL, Lit(40, 2)),
            "PAGO4", INVERSION_TOTAL, Lit(10, 2))

\* The steps of computeFields pass on a record c: the mapping out built so
\* far and the constants ENERGIA, FACTURA and INVERSION_TOTAL.

\* from const INVERSION_TOTAL = num(out.INVERSION_TOTAL) to the return
FieldsFromInversion(c) ==
    FormatAll(DefaultBase(DefaultPagos(FixedDefaults(
                  DefaultBeneficio(c.out, c.INVERSION_TOTAL)), c.INVERSION_TOTAL),
                  c.ENERGIA, c.FACTURA),
              FormattedKeys)

\* from const POTENCIA = num(out.POTENCIA) on
FieldsFromSizing(c) ==
    FieldsFromInversion([c EXCEPT !.INVERSION_TOTAL = num(c.out["INVERSION_TOTAL"])])

FieldsFromPotencia(c) ==
    FieldsFromSizing([c EXCEPT !.out = DefaultSizing(c.out, num(c.out["POTENCIA"]))])

\* from const ENERGIA = num(out.ENERGIA) on
FieldsFromBase(c) ==
    FieldsFromPotencia([c EXCEPT !.out = DefaultPotencia(c.out, c.ENERGIA)])

FieldsFromFecha(out) ==
    FieldsFromBase([out |-> out, ENERGIA |-> num(Get(out, "ENERGIA")),
                    FACTURA |-> num(Get(out, "FACTURA")), INVERSION_TOTAL |-> NaN])

\* computeFields(input): the mapping returned, or Raised when a String(v)
\* inside num raises
computeFields(input) ==
    IF \E key \in NumKeys : StringRaises(Get(input, key)) THEN Raised
    ELSE FieldsFromFecha(DefaultFecha(input))

-----------------------------------------------------------------------------
(* computeFields of the financial variant (part_001).                      *)

YEARS == 25
DISCOUNT == Lit(12, 2)
SAVINGS_RATE == Lit(80, 2)
O_M_RATE == Lit(1, 2)
DEGRAD == Lit(5, 3)
VAT == Lit(19, 2)
MATERIALES_SHARE == Lit(60, 2)

\* the keys whose input values the financial variant can pass to String
FinancialNumKeys == {"ENERGIA", "FACTURA", "POTENCIA", "INVERSION_TOTAL",
                     "MATERIALES_BASE", "BENEFICIO_TRIBUTARIO", "AHORRO_TOTAL",
                     "PAGO1", "PAGO2", "PAGO3", "PAGO4"}

\* const MATERIALES_BASE
MaterialesBase(out, INVERSION_TOTAL) ==
    IF "MATERIALES_BASE" \in DOMAIN out THEN toNum(out["MATERIALES_BASE"])
    ELSE IF isNaN(INVERSION_TOTAL) THEN NaN
    ELSE Mul(INVERSION_TOTAL, MATERIALES_SHARE)

\* out.IVA_MATERIALES = formatCO(IVA_MATERIALES)
IvaMateriales(base) ==
    formatCO(NumV(IF isNaN(base) THEN NaN ELSE Mul(base, VAT)))

\* ahMes of the years 1..YEARS, Math.pow(1 - DEGRAD, y - 1) carried as the
\* running product pw: the list so far, for the years before y
AhMesYear(a, ahorroMensual0) ==
    [list |-> Append(a.list, IF isNaN(ahorroMensual0) THEN Zero
                             ELSE Mul(ahorroMensual0, a.pw)),
     pw |-> Mul(a.pw, Sub(Num(1), DEGRAD)), y |-> a.y + 1]

\* at most k more years
RECURSIVE AhMesYears(_, _, _)
AhMesYears(a, ahorroMensual0, k) ==
    IF a.y > YEARS THEN a
    ELSE IF k = 1 THEN AhMesYear(a, ahorroMensual0)
    ELSE AhMesYears(AhMesYears(a, ahorroMensual0, k \div 2), ahorroMensual0,
                    k - k \div 2)

AhMes(ahorroMensual0) ==
    AhMesYears([list |-> <<>>, pw |-> Num(1), y |-> 1], ahorroMensual0, YEARS).list

\* benY of the year y (TAX_BENEFIT_MODE is 'YEAR1')
BenY(BENEFICIO_TRIBUTARIO, y) ==
    IF ~isNaN(BENEFICIO_TRIBUTARIO) /\ y = 1 THEN BENEFICIO_TRIBUTARIO ELSE Zero

\* oym of every year
Oym(INVERSION_TOTAL) ==
    IF isNaN(INVERSION_TOTAL) THEN Zero ELSE Mul(INVERSION_TOTAL, O_M_RATE)

\* the annual cash flows: minus the investment, then cf of the years 1..YEARS
Flows(I, B, ahMes) ==
    <<IF isNaN(I) THEN NaN ELSE Neg(I)>>
      \o [y \in 1..YEARS |->
            Add(Sub(Mul(ahMes[y], Num(12)), Oym(I)), BenY(B, y))]

\* benFlows and costFlows of computeBC
BenFlows(B, ahMes) ==
    <<Zero>> \o [y \in 1..YEARS |-> Add(Mul(ahMes[y], Num(12)), BenY(B, y))]
CostFlows(I) ==
    <<IF isNaN(I) THEN Zero ELSE I>> \o [y \in 1..YEARS |-> Oym(I)]

\* sumaAhorros: the sum of ahMes * 12 over the years, in order
SumYear(a, ahMes) ==
    [acc |-> Add(a.acc, Mul(ahMes[a.y], Num(12))), y |-> a.y + 1]
RECURSIVE SumYears(_, _, _)
SumYears(a, ahMes, k) ==
    IF a.y > YEARS THEN a
    ELSE IF k = 1 THEN SumYear(a, ahMes)
    ELSE SumYears(SumYears(a, ahMes, k \div 2), ahMes, k - k \div 2)
SumaAhorros(ahorroMensual0, ahMes) ==
    IF isNaN(ahorroMensual0) THEN Zero
    ELSE SumYears([acc |-> Zero, y |-> 1], ahMes, YEARS).acc

\* isFinite(x) ? x.toFixed(fd) + suffix : ''
FixedText(x, fd, suffix) ==
    IF isFinite(x) THEN Str(toFixed(x, fd) \o suffix) ELSE EmptyStr

\* bc of computeBC
BcRatio(pvBen, pvCost) == IF Gt(pvCost, Zero) THEN Div(pvBen, pvCost) ELSE NaN

\* flows.slice(1).reduce((a, b) => a + b, 0)
RECURSIVE SumFlows(_, _, _, _)
SumFlows(a, flows, to, k) ==
    IF a.y > to THEN a
    ELSE IF k = 1 THEN [acc |-> Add(a.acc, flows[a.y]), y |-> a.y + 1]
    ELSE SumFlows(SumFlows(a, flows, to, k \div 2), flows, to, k - k \div 2)

\* roi
Roi(I, flows) ==
    IF isNaN(I) THEN NaN
    ELSE Div(Add(SumFlows([acc |-> Zero, y |-> 2], flows, Len(flows),
                          Len(flows)).acc, flows[1]),
             Abs(flows[1]))

\* The steps of the financial computeFields pass on a record c: the mapping
\* out built so far and the constants of the function computed so far; the
\* last step leaves the returned mapping in c.out.

\* from the IRR on: TIR, RECUPERACION_INVERSION, ROI and the final formats
FinancialResults(c) ==
    [c EXCEPT !.out = FormatAll(DefaultBase(
        [TIR |-> FixedText(Mul(irr(c.flows), Num(100)), 2, <<"%">>),
         RECUPERACION_INVERSION |-> FixedText(paybackYears(c.flows), 1, <<>>),
         ROI |-> FixedText(Mul(Roi(c.INVERSION_TOTAL, c.flows), Num(100)), 1,
                           <<"%">>)] @@ c.out,
        c.ENERGIA, c.FACTURA), FormattedKeys)]

\* AHORRO_TOTAL when it is not in out, and BC
FinancialTotals(c) ==
    FinancialResults([c EXCEPT !.out =
        Put(Default(c.out, "AHORRO_TOTAL",
                    NumStr(MathRound(SumaAhorros(c.ahorroMensual0, c.ahMes)))),
            "BC", FixedText(BcRatio(npv(DISCOUNT, BenFlows(c.BENEFICIO_TRIBUTARIO,
                                                           c.ahMes)),
                                    npv(DISCOUNT, CostFlows(c.INVERSION_TOTAL))),
                            2, <<>>))])

\* the construction of flows
FinancialFlows(c) ==
    FinancialTotals([c EXCEPT !.flows =
        Flows(c.INVERSION_TOTAL, c.BENEFICIO_TRIBUTARIO, c.ahMes)])

\* const BENEFICIO_TRIBUTARIO and ahorroMensual0
FinancialBenefit(c) ==
    FinancialFlows([c EXCEPT
        !.BENEFICIO_TRIBUTARIO = toNum(c.out["BENEFICIO_TRIBUTARIO"]),
        !.ahorroMensual0 = IF isNaN(c.FACTURA) THEN NaN
                           ELSE Mul(c.FACTURA, SAVINGS_RATE),
        !.ahMes = AhMes(IF isNaN(c.FACTURA) THEN NaN
                        ELSE Mul(c.FACTURA, SAVINGS_RATE))])

\* IVA_MATERIALES, and BENEFICIO_TRIBUTARIO when it is not in out
FinancialIva(c) ==
    FinancialBenefit([c EXCEPT !.out =
        DefaultBeneficio(Put(c.out, "IVA_MATERIALES",
                             IvaMateriales(MaterialesBase(c.out, c.INVERSION_TOTAL))),
                         c.INVERSION_TOTAL)])

FinancialInversion(c) ==
    FinancialIva([c EXCEPT !.INVERSION_TOTAL = toNum(c.out["INVERSION_TOTAL"])])

FinancialSizing(c) ==
    FinancialInversion([c EXCEPT !.out =
        DefaultSizing(c.out, toNum(c.out["POTENCIA"]))])

FinancialPotencia(c) ==
    FinancialSizing([c EXCEPT !.out = DefaultPotencia(c.out, c.ENERGIA)])

FinancialBase(out) ==
    FinancialPotencia([out |-> out, ENERGIA |-> toNum(Get(out, "ENERGIA")),
                       FACTURA |-> toNum(Get(out, "FACTURA")),
                       INVERSION_TOTAL |-> NaN, BENEFICIO_TRIBUTARIO |-> NaN,
                       ahorroMensual0 |-> NaN, ahMes |-> <<>>, flows |-> <<>>])

\* computeFields(input) of the financial variant: the mapping returned, or
\* Raised when a String(v) inside toNum raises
computeFieldsFinancial(input) ==
    IF \E key \in FinancialNumKeys : StringRaises(Get(input, key)) THEN Raised
    ELSE FinancialBase(DefaultFecha(input)).out

\* the cash flows computeFields builds for input: flows
flowsOf(input) == FinancialBase(DefaultFecha(input)).flows

-----------------------------------------------------------------------------
(* computeFields of the spreadsheet variant (part_000).                    *)

\* resultados[cell], resultados being input.resultados || {}: undefined on
\* a value that is no mapping
Cell(input, cell) ==
    IF Get(input, "resultados").t = "obj" THEN Get(Get(input, "resultados").o, cell)
    ELSE Undefined

\* the cells the spreadsheet variant reads
SheetCells == {"PROYECTO!E6", "PROYECTO!E7", "PROYECTO!E17", "PROYECTO!E19",
               "PROYECTO!E20", "PROYECTO!E23", "PROYECTO!D40", "PROYECTO!D44",
               "PROYECTO!D49", "PROYECTO!D54", "VPN+TIR!E55", "PROYECTO!F6"}

\* the fields assigned from resultados and from ENERGIA and FACTURA
SheetFields(input) ==
    [POTENCIA |-> formatDecimal(Cell(input, "PROYECTO!E6"), 2),
     INVERSORES |-> formatCORound(NumV(MathFloor(toNum(Cell(input, "PROYECTO!E7"))))),
     INVERSION_TOTAL |-> formatCORound(Cell(input, "PROYECTO!E17")),
     AHORRO_TOTAL |-> formatCORound(Cell(input, "PROYECTO!E19")),
     RECUPERACION_INVERSION |-> formatDecimal(Cell(input, "PROYECTO!E20"), 2),
     BENEFICIO_TRIBUTARIO |-> formatCORound(Cell(input, "PROYECTO!E23")),
     PAGO1 |-> formatCORound(Cell(input, "PROYECTO!D40")),
     PAGO2 |-> formatCORound(Cell(input, "PROYECTO!D44")),
     PAGO3 |-> formatCORound(Cell(input, "PROYECTO!D49")),
     PAGO4 |-> formatCORound(Cell(input, "PROYECTO!D54")),
     TIR |-> formatPercent(Cell(input, "VPN+TIR!E55"), 2),
     ENERGIA |-> formatCORound(Get(input, "ENERGIA")),
     FACTURA |-> formatCORound(Get(input, "FACTURA")),
     PANELES |-> formatCORound(Cell(input, "PROYECTO!F6")),
     BC |-> Or(Get(input, "BC"), EmptyStr),
     IVA_MATERIALES |-> Or(Get(input, "IVA_MATERIALES"), EmptyStr)]

\* computeFields(input) of the spreadsheet variant: the mapping returned, or
\* Raised when a String(v) inside toNum raises
computeFieldsSheet(input) ==
    IF \/ \E cell \in SheetCells : StringRaises(Cell(input, cell))
       \/ StringRaises(Get(input, "ENERGIA"))
       \/ StringRaises(Get(input, "FACTURA"))
    THEN Raised
    ELSE DefaultFecha(SheetFields(input) @@ input)

-----------------------------------------------------------------------------
(* PDF buffers and the templates directory.  A buffer is a record: kind    *)
(* "pdf" with its pages in order, kind "empty" (length 0) or kind          *)
(* "corrupt" (bytes PDFDocument.load rejects).  A page is named by the     *)
(* document it comes from and its position there.                          *)

PdfBuffer(name, n) ==
    [t |-> "buffer", kind |-> "pdf", pages |-> [i \in 1..n |-> <<name, i>>]]
EmptyBuffer == [t |-> "buffer", kind |-> "empty", pages |-> <<>>]
CorruptBuffer == [t |-> "buffer", kind |-> "corrupt", pages |-> <<>>]

\* STATIC_PDFS
afterIndex2 == <<"anexo1.pdf", "anexo2.pdf">>
afterIndex3 == <<"anexo3.pdf">>
AnnexNames == {"anexo1.pdf", "anexo2.pdf", "anexo3.pdf"}

\* what the templates directory can hold under an annex name: nothing, a
\* file that cannot be read, or a file with the bytes of a buffer
Absent == [t |-> "absent"]
Unreadable == [t |-> "unreadable"]
StoredFiles(name) ==
    {Absent, Unreadable, EmptyBuffer, CorruptBuffer}
      \cup {PdfBuffer(name, n) : n \in 1..MaxAnnexPages}

\* readStaticPdfBuffer(absPath) in the directory dir: null when the file does
\* not exist; fs.readFileSync raises on a file that cannot be read
readStaticPdfBuffer(dir, absPath) ==
    IF dir[absPath].t = "absent" THEN Null
    ELSE IF dir[absPath].t = "unreadable" THEN Raised
    ELSE dir[absPath]

\* paths.map(readStaticPdfBuffer).filter(Boolean): the buffers read, in
\* order, nulls removed; Raised when a read raises
RECURSIVE readAnnexes(_, _, _)
readAnnexes(dir, paths, acc) ==
    IF paths = <<>> THEN [t |-> "list", items |-> acc]
    ELSE LET b == readStaticPdfBuffer(dir, Head(paths))
         IN  IF b.t = "raised" THEN Raised
             ELSE readAnnexes(dir, Tail(paths),
                              IF b.t = "null" THEN acc ELSE Append(acc, b))

\* mergePdfBuffers(buffers): the saved document, holding the pages added to
\* out; Raised when PDFDocument.load rejects a buffer
RECURSIVE mergeLoop(_, _)
mergeLoop(out, buffers) ==
    IF buffers = <<>> THEN [t |-> "buffer", kind |-> "pdf", pages |-> out]
    ELSE LET b == Head(buffers)
         IN  IF b.t = "null" \/ b.t = "undef" \/ b.kind = "empty"
             THEN mergeLoop(out, Tail(buffers))
             ELSE IF b.kind = "corrupt" THEN Raised
             ELSE mergeLoop(out \o b.pages, Tail(buffers))

\* a merge that loads every buffer of the list, the empty ones included
mergeLoadsAll(buffers) ==
    IF \E i \in 1..Len(buffers) :
          buffers[i].t \in {"null", "undef"} \/ buffers[i].kind = "empty"
    THEN Raised
    ELSE mergeLoop(<<>>, buffers)

mergePdfBuffers(buffers) == mergeLoop(<<>>, buffers)

-----------------------------------------------------------------------------
(* The request handler of POST /render/cotizacion and the render calls it  *)
(* awaits.  pc is the await the handler is suspended at; rpc is the await  *)
(* the running renderUrlToPdfBuffer call is suspended at.                  *)

\* buildPageUrl(_req, filename, data): the template and its query parameters,
\* one for every value that is neither undefined nor null
buildPageUrl(filename, d) ==
    IF \E key \in DOMAIN d : StringRaises(d[key]) THEN Raised
    ELSE [t |-> "url", file |-> filename,
          params |-> [key \in {x \in DOMAIN d : d[x].t \notin {"undef", "null"}}
                        |-> JsString(d[key])]]

urlIndex(d) ==
    buildPageUrl("index.html",
        [key \in {"EMPRESA", "CLIENTE", "CIUDAD", "FECHA", "POTENCIA", "ENERGIA",
                  "FACTURA"} |-> Get(d, key)])

urlIndex2(d) ==
    buildPageUrl("index2.html",
        [key \in {"PANELES", "INVERSORES"} |-> Get(d, key)])

urlIndex3(d) ==
    buildPageUrl("index3.html",
        [INVERSION_TOTAL |-> Get(d, "INVERSION_TOTAL"),
         BENEFICIO_TRIBUTARIO |-> Get(d, "BENEFICIO_TRIBUTARIO"),
         RECUPERACION_INVERSION |-> Get(d, "RECUPERACION_INVERSION"),
         TIR |-> Get(d, "TIR"),
         BC |-> Get(d, "BC"),
         AHORRO_TOTAL |-> Get(d, "AHORRO_TOTAL"),
         ENERGIA |-> Get(d, "ENERGIA"),
         AHORRO_MENSUAL |-> Or(Get(d, "AHORRO_TOTAL"), EmptyStr),
         FACTUIRA |-> Or(Get(d, "FACTURA"), EmptyStr),
         PAGO1 |-> Or(Get(d, "PAGO1"), EmptyStr),
         PAGO2 |-> Or(Get(d, "PAGO2"), EmptyStr),
         PAGO3 |-> Or(Get(d, "PAGO3"), EmptyStr),
         PAGO4 |-> Or(Get(d, "PAGO4"), EmptyStr),
         IVA_MATERIALES |-> Or(Get(d, "IVA_MATERIALES"), EmptyStr)])

\* a handler that awaits the third render before the second, against which
\* StepOrder is tested
awaitOrderSwapped == <<"pdfIndex", "pdfIndex3", "pdfIndex2", "merge">>

\* the awaits of the handler, in the order of its statements
awaitOrder == <<"pdfIndex", "pdfIndex2", "pdfIndex3", "merge">>

\* the await that follows the await p
Following(p) ==
    awaitOrder[(CHOOSE i \in 1..Len(awaitOrder) : awaitOrder[i] = p) + 1]

\* the URL rendered at the await p
urlOf(p, d) ==
    IF p = "pdfIndex" THEN urlIndex(d)
    ELSE IF p = "pdfIndex2" THEN urlIndex2(d)
    ELSE urlIndex3(d)

\* a merge list with the first annex set ahead of the second page, against
\* which FixedPageOrder is tested
mergeArgsAnnexFirst(p1, p2, a2, p3, a3) == <<p1>> \o a2 \o <<p2, p3>> \o a3

\* the argument of the final mergePdfBuffers call
mergeArgs(p1, p2, a2, p3, a3) == <<p1, p2>> \o a2 \o <<p3>> \o a3

\* a render that closes the browser only after a successful try block,
\* against which SessionsClosed is tested
closeOnSuccess(sessions, err) == IF err THEN sessions ELSE sessions - 1

\* the finally block of renderUrlToPdfBuffer: browser.close() ends the
\* session, whether the try block raised (err) or not
finallyClose(sessions, err) == sessions - 1

NoResponse == [status |-> 0, type |-> "", pages |-> <<>>, text |-> <<>>]

\* res.send(Buffer.from(merged)) with its two headers
sendPdf(doc) ==
    [status |-> 200, type |-> "application/pdf", pages |-> doc.pages, text |-> <<>>]

\* a catch block that answers without setting the status, against which
\* NoPartialDocument is tested
catchWithoutStatus(wantsJson) ==
    [status |-> 200, type |-> IF wantsJson THEN "json" ELSE "text",
     pages |-> <<>>,
     text |-> IF wantsJson THEN <<"error", "Render failed", "detail">>
              ELSE <<"Render failed">>]

\* the catch block: status 500, a JSON body when debug=1, else plain text
catchResponse(wantsJson) ==
    [status |-> 500, type |-> IF wantsJson THEN "json" ELSE "text",
     pages |-> <<>>,
     text |-> IF wantsJson THEN <<"error", "Render failed", "detail">>
              ELSE <<"Render failed">>]

\* the request bodies of the model: data missing, a plain input, a field
\* whose String() raises in computeFields, one whose String() raises in
\* buildPageUrl
HandlerInputs ==
    { <<>>,
      [ENERGIA |-> Str(<<"5", "0", "0">>), CLIENTE |-> Str(<<"A">>)],
      [ENERGIA |-> Obj([toString |-> Null])],
      [CLIENTE |-> Obj([toString |-> Null])] }

Directories ==
    {dir \in [AnnexNames -> UNION {StoredFiles(n) : n \in AnnexNames}] :
        \A n \in AnnexNames : dir[n] \in StoredFiles(n)}

HandlerInit ==
    /\ pc = "start"
    /\ inputData \in HandlerInputs
    /\ debug \in BOOLEAN
    /\ files \in Directories
    /\ data = Undefined
    /\ rpc = "idle"
    /\ rurl = Undefined
    /\ rerr = ""
    /\ rpdf = Undefined
    /\ open = 0
    /\ pdfIndex = Undefined
    /\ pdfIndex2 = Undefined
    /\ pdfIndex3 = Undefined
    /\ annexAfter2 = <<>>
    /\ annexAfter3 = <<>>
    /\ merged = Undefined
    /\ response = NoResponse
    /\ failed = <<>>
    /\ log = <<>>

\* no request: the state of the handler while a function is applied on its
\* own
HandlerOff ==
    /\ pc = "off"
    /\ inputData = <<>>
    /\ debug = FALSE
    /\ files = [n \in AnnexNames |-> Absent]
    /\ data = Undefined
    /\ rpc = "idle"
    /\ rurl = Undefined
    /\ rerr = ""
    /\ rpdf = Undefined
    /\ open = 0
    /\ pdfIndex = Undefined
    /\ pdfIndex2 = Undefined
    /\ pdfIndex3 = Undefined
    /\ annexAfter2 = <<>>
    /\ annexAfter3 = <<>>
    /\ merged = Undefined
    /\ response = NoResponse
    /\ failed = <<>>
    /\ log = <<>>

\* no function is being applied on its own
MergeOff == mergeIn = <<>> /\ mergeOut = Undefined
ParseOff ==
    parseIn = Undefined /\ parseOf = Undefined /\ parseOut = Undefined
      /\ parsePc = "off"
FieldsOff == fieldsIn = <<>> /\ fieldsBy = "" /\ fieldsOut = Undefined
IrrOff ==
    irrFlows = <<>> /\ irrPc = "off" /\ newton = Undefined /\ bisect = Undefined
      /\ irrOut = Undefined
PayOff == payFlows = <<>> /\ payOut = Undefined
PotOff == potIn = <<>> /\ potBy = "" /\ potOut = <<>>

\* a request arrives
Init ==
    HandlerInit /\ MergeOff /\ ParseOff /\ FieldsOff /\ IrrOff /\ PayOff /\ PotOff

\* a catch block that answers and runs the handler again, against which
\* NoRetry is tested
catchAndRestart(err) ==
    /\ response' = catchResponse(debug)
    /\ failed' = err
    /\ pc' = "start"

\* the exception err reaches the catch block of the handler
Catch(err) ==
    /\ response' = catchResponse(debug)
    /\ failed' = err
    /\ pc' = "done"

\* the handler from const data = d up to its first await: the three
\* buildPageUrl calls and the call of renderUrlToPdfBuffer(urlIndex)
BeginUrls(d, u1, u2, u3) ==
    IF u1.t = "raised" \/ u2.t = "raised" \/ u3.t = "raised"
    THEN /\ Catch(<<"buildPageUrl">>)
         /\ data' = d
         /\ log' = log \o << <<"returned", "computeFields">> >>
         /\ UNCHANGED <<rpc, rurl>>
    ELSE /\ data' = d
         /\ pc' = awaitOrder[1]
         /\ rpc' = "launch"
         /\ rurl' = urlOf(awaitOrder[1], d)
         /\ log' = log \o << <<"returned", "computeFields">>,
                              <<"issued", awaitOrder[1]>> >>
         /\ UNCHANGED <<response, failed>>

BeginData(d) ==
    IF d = Raised
    THEN /\ Catch(<<"computeFields">>)
         /\ UNCHANGED <<data, rpc, rurl, log>>
    ELSE BeginUrls(d, urlIndex(d), urlIndex2(d), urlIndex3(d))

\* the handler up to its first await, computeFields included
Begin ==
    /\ pc = "start"
    /\ BeginData(computeFields(inputData))
    /\ UNCHANGED <<inputData, debug, files, rerr, rpdf, open, pdfIndex,
                   pdfIndex2, pdfIndex3, annexAfter2, annexAfter3, merged>>
    /\ UNCHANGED notHandler

\* puppeteer.launch resolves: a browser session exists
Launch ==
    /\ rpc = "launch"
    /\ open' = open + 1
    /\ rpc' = "newPage"
    /\ UNCHANGED <<pc, inputData, debug, data, files, rurl, rerr, rpdf, pdfIndex,
                   pdfIndex2, pdfIndex3, annexAfter2, annexAfter3, merged,
                   response, failed, log>>
    /\ UNCHANGED notHandler

\* puppeteer.launch rejects: it is awaited before the try block, no session
\* exists, and the exception reaches the handler
LaunchFails ==
    /\ rpc = "launch"
    /\ rpc' = "idle"
    /\ rurl' = Undefined
    /\ Catch(<<pc, "launch">>)
    /\ UNCHANGED <<inputData, debug, data, files, rerr, rpdf, open, pdfIndex,
                   pdfIndex2, pdfIndex3, annexAfter2, annexAfter3, merged, log>>
    /\ UNCHANGED notHandler

\* the awaits of the try block before page.pdf, and the one after each
PageSteps == [newPage |-> "emulateMediaType", emulateMediaType |-> "goto",
              goto |-> "pdf"]

\* browser.newPage, page.emulateMediaType or page.goto resolves
PageStep ==
    /\ rpc \in DOMAIN PageSteps
    /\ rpc' = PageSteps[rpc]
    /\ UNCHANGED <<pc, inputData, debug, data, files, rurl, rerr, rpdf, open,
                   pdfIndex, pdfIndex2, pdfIndex3, annexAfter2, annexAfter3,
                   merged, response, failed, log>>
    /\ UNCHANGED notHandler

\* page.pdf resolves with the printed template
Pdf ==
    /\ rpc = "pdf"
    /\ \E n \in 1..MaxRenderPages : rpdf' = PdfBuffer(rurl.file, n)
    /\ rpc' = "close"
    /\ UNCHANGED <<pc, inputData, debug, data, files, rurl, rerr, open, pdfIndex,
                   pdfIndex2, pdfIndex3, annexAfter2, annexAfter3, merged,
                   response, failed, log>>
    /\ UNCHANGED notHandler

\* an await of the try block rejects (page creation, navigation timeout,
\* PDF generation): control passes to the finally block
StepFails ==
    /\ rpc \in DOMAIN PageSteps \cup {"pdf"}
    /\ rerr' = rpc
    /\ rpc' = "close"
    /\ UNCHANGED <<pc, inputData, debug, data, files, rurl, rpdf, open, pdfIndex,
                   pdfIndex2, pdfIndex3, annexAfter2, annexAfter3, merged,
                   response, failed, log>>
    /\ UNCHANGED notHandler

\* the finally block has run and the pending exception reaches the handler
CloseAfterFailure ==
    /\ rpc = "close"
    /\ rerr # ""
    /\ open' = finallyClose(open, TRUE)
    /\ rpc' = "idle"
    /\ rurl' = Undefined
    /\ rerr' = ""
    /\ Catch(<<pc, rerr>>)
    /\ UNCHANGED <<inputData, debug, data, files, rpdf, pdfIndex, pdfIndex2,
                   pdfIndex3, annexAfter2, annexAfter3, merged, log>>
    /\ UNCHANGED notHandler

\* the buffer the handler holds in the constant named v once the render
\* awaited at p has returned buf
Stored(v, p, buf, old) == IF p = v THEN buf ELSE old

\* the finally block has run and a render call returns, another render
\* following: the handler stores the buffer and issues the next render
CloseAndNext ==
    /\ rpc = "close"
    /\ rerr = ""
    /\ Following(pc) # "merge"
    /\ open' = finallyClose(open, FALSE)
    /\ rpc' = "launch"
    /\ rpdf' = Undefined
    /\ pdfIndex' = Stored("pdfIndex", pc, rpdf, pdfIndex)
    /\ pdfIndex2' = Stored("pdfIndex2", pc, rpdf, pdfIndex2)
    /\ pdfIndex3' = Stored("pdfIndex3", pc, rpdf, pdfIndex3)
    /\ pc' = Following(pc)
    /\ rurl' = urlOf(Following(pc), data)
    /\ log' = log \o << <<"returned", pc>>, <<"issued", Following(pc)>> >>
    /\ UNCHANGED <<inputData, debug, data, files, rerr, annexAfter2,
                   annexAfter3, merged, response, failed>>
    /\ UNCHANGED notHandler

\* the handler after the last render: the annexes are read and
\* mergePdfBuffers is called
ReadAnnexes(a2, a3) ==
    IF a2.t = "raised" \/ a3.t = "raised"
    THEN /\ Catch(<<"readStaticPdfBuffer">>)
         /\ log' = log \o << <<"returned", pc>> >>
         /\ UNCHANGED <<annexAfter2, annexAfter3>>
    ELSE /\ annexAfter2' = a2.items
         /\ annexAfter3' = a3.items
         /\ pc' = Following(pc)
         /\ log' = log \o << <<"returned", pc>>, <<"issued", Following(pc)>> >>
         /\ UNCHANGED <<response, failed>>

\* the finally block has run and the last render call returns: the handler
\* reads the annexes and calls mergePdfBuffers
CloseAndRead ==
    /\ rpc = "close"
    /\ rerr = ""
    /\ Following(pc) = "merge"
    /\ open' = finallyClose(open, FALSE)
    /\ rpc' = "idle"
    /\ rurl' = Undefined
    /\ rpdf' = Undefined
    /\ pdfIndex' = Stored("pdfIndex", pc, rpdf, pdfIndex)
    /\ pdfIndex2' = Stored("pdfIndex2", pc, rpdf, pdfIndex2)
    /\ pdfIndex3' = Stored("pdfIndex3", pc, rpdf, pdfIndex3)
    /\ ReadAnnexes(readAnnexes(files, afterIndex2, <<>>),
                   readAnnexes(files, afterIndex3, <<>>))
    /\ UNCHANGED <<inputData, debug, data, files, rerr, merged>>
    /\ UNCHANGED notHandler

\* the document is sent, or the exception of PDFDocument.load reaches the
\* catch block
Merged(m) ==
    IF m.t = "raised"
    THEN /\ Catch(<<"merge">>)
         /\ UNCHANGED <<merged, log>>
    ELSE /\ merged' = m
         /\ response' = sendPdf(m)
         /\ pc' = "done"
         /\ log' = log \o << <<"returned", "merge">> >>
         /\ UNCHANGED failed

\* mergePdfBuffers settles
Merge ==
    /\ pc = "merge"
    /\ Merged(mergePdfBuffers(mergeArgs(pdfIndex, pdfIndex2, annexAfter2,
                                        pdfIndex3, annexAfter3)))
    /\ UNCHANGED <<inputData, debug, data, files, rpc, rurl, rerr, rpdf, open,
                   pdfIndex, pdfIndex2, pdfIndex3, annexAfter2, annexAfter3>>
    /\ UNCHANGED notHandler

Next ==
    \/ Begin
    \/ Launch
    \/ LaunchFails
    \/ PageStep
    \/ Pdf
    \/ StepFails
    \/ CloseAfterFailure
    \/ CloseAndNext
    \/ CloseAndRead
    \/ Merge

Spec == Init /\ [][Next]_vars

-----------------------------------------------------------------------------
(* Properties of the request handler, checked under Spec.                  *)

\* C2: when a render call or the merge fails, the request ends with a 500
\* response that carries no page; PDF bytes are sent only with status 200,
\* and only when the three renders and the merge have all succeeded.
NoPartialDocument ==
    /\ rerr # "" => response = NoResponse
    /\ failed # <<>> =>
          /\ pc = "done"
          /\ response.status = 500
          /\ response.pages = <<>>
          /\ response.type # "application/pdf"
    /\ response.type = "application/pdf" =>
          /\ response.status = 200
          /\ failed = <<>>
          /\ pdfIndex.t = "buffer" /\ pdfIndex2.t = "buffer"
          /\ pdfIndex3.t = "buffer" /\ merged.t = "buffer"
          /\ response.pages = merged.pages
    /\ pc = "done" => response.status \in {200, 500}
    /\ response.status = 200 => response.type = "application/pdf"

\* C2 witness: the second render failed at page.goto after the first render
\* had succeeded, and the request was answered with 500 and no page.
RenderFailedAfterFirstPage ==
    /\ failed = <<"pdfIndex2", "goto">>
    /\ pdfIndex.t = "buffer"
    /\ response.status = 500
    /\ response.pages = <<>>

\* C3: at most one browser session is open; none is open once the render
\* call has returned or failed (no render running, or the next one still
\* launching), and none is open once the request has been answered.
SessionsClosed ==
    /\ open \in {0, 1}
    /\ rpc \in {"idle", "launch"} => open = 0
    /\ response # NoResponse => open = 0

\* C3 witness: PDF generation failed in the third render and the request
\* was answered with no session left open.
ClosedAfterPdfFailure ==
    /\ failed = <<"pdfIndex3", "pdf">>
    /\ response.status = 500
    /\ open = 0

\* the pages of the annex file name in the templates directory
FilePages(name) ==
    IF files[name].t = "buffer" /\ files[name].kind = "pdf" THEN files[name].pages
    ELSE <<>>

\* every page of the buffer b comes from the template name
PagesFrom(b, name) == \A i \in 1..Len(b.pages) : b.pages[i][1] = name

\* C4: a successful response holds the pages of index.html, index2.html,
\* anexo1.pdf, anexo2.pdf, index3.html and anexo3.pdf in that order, for
\* every input; an absent annex contributes no page.
FixedPageOrder ==
    response.status = 200 =>
        /\ PagesFrom(pdfIndex, "index.html")
        /\ PagesFrom(pdfIndex2, "index2.html")
        /\ PagesFrom(pdfIndex3, "index3.html")
        /\ response.pages =
              pdfIndex.pages \o pdfIndex2.pages \o FilePages("anexo1.pdf")
                \o FilePages("anexo2.pdf") \o pdfIndex3.pages
                \o FilePages("anexo3.pdf")

\* C4 witness: a successful response for a non-empty input with anexo1.pdf
\* absent and the two other annexes present.
AnswerWithoutFirstAnnex ==
    /\ response.status = 200
    /\ inputData # <<>>
    /\ files["anexo1.pdf"].t = "absent"
    /\ FilePages("anexo2.pdf") # <<>>
    /\ FilePages("anexo3.pdf") # <<>>
    /\ Len(response.pages) > Len(FilePages("anexo2.pdf")) + Len(FilePages("anexo3.pdf"))

\* the steps of one request in the order the handler takes them
StepSequence ==
    << <<"returned", "computeFields">>,
       <<"issued", "pdfIndex">>, <<"returned", "pdfIndex">>,
       <<"issued", "pdfIndex2">>, <<"returned", "pdfIndex2">>,
       <<"issued", "pdfIndex3">>, <<"returned", "pdfIndex3">>,
       <<"issued", "merge">>, <<"returned", "merge">> >>

\* C6: computeFields completes before the first render is issued, each
\* render completes before the next is issued, and the merge is issued only
\* after the three renders have completed.
StepOrder ==
    /\ Len(log) <= Len(StepSequence)
    /\ \A i \in 1..Len(log) : log[i] = StepSequence[i]
    /\ rpc # "idle" => data # Undefined
    /\ (rpc # "idle" /\ pc = "pdfIndex2") => pdfIndex.t = "buffer"
    /\ (rpc # "idle" /\ pc = "pdfIndex3") =>
          pdfIndex.t = "buffer" /\ pdfIndex2.t = "buffer"
    /\ pc = "merge" =>
          pdfIndex.t = "buffer" /\ pdfIndex2.t = "buffer" /\ pdfIndex3.t = "buffer"

\* C6 witness: the merge has been issued after the three renders returned.
MergeIssuedLast ==
    /\ pc = "merge"
    /\ Len(log) = 8
    /\ log[8] = <<"issued", "merge">>

\* the three render calls of the handler, by the constant that receives
\* the buffer
Renders == <<"pdfIndex", "pdfIndex2", "pdfIndex3">>

\* how many times the step was issued
Issued(step) == Cardinality({i \in DOMAIN log : log[i] = <<"issued", step>>})

\* after a failure: no render is running, nothing was issued after the
\* failed step, no annex was read and no merge started unless the failure
\* is theirs, and the answer is the 500 response
StoppedAtFailure ==
    failed # <<>> =>
        /\ pc = "done" /\ rpc = "idle" /\ open = 0
        /\ response = catchResponse(debug)
        /\ merged = Undefined
        /\ \A k \in 1..3 :
              failed[1] = Renders[k] =>
                 /\ log[Len(log)] = <<"issued", Renders[k]>>
                 /\ \A j \in (k + 1)..3 : Issued(Renders[j]) = 0
        /\ failed[1] # "merge" => Issued("merge") = 0
        /\ failed[1] \notin {"merge", "readStaticPdfBuffer"} =>
              annexAfter2 = <<>> /\ annexAfter3 = <<>>
        /\ failed[1] \in {"computeFields", "buildPageUrl"} =>
              \A k \in 1..3 : Issued(Renders[k]) = 0

\* once the request is answered nothing more happens: the response, the
\* steps issued and the render state stay as they are
NothingAfterAnswer ==
    response # NoResponse =>
        /\ response' = response
        /\ log' = log
        /\ <<rpc, open, pc, failed>>' = <<rpc, open, pc, failed>>
        /\ <<annexAfter2, annexAfter3, merged>>' = <<annexAfter2, annexAfter3, merged>>

\* C17: within one request each of the three renders is issued at most
\* once, and once a render, the annex read or the merge has failed no
\* further render, annex read or merge is started and exactly one 500
\* response is sent.
NoRetry ==
    /\ [](/\ \A k \in 1..3 : Issued(Renders[k]) <= 1
          /\ Issued("merge") <= 1
          /\ StoppedAtFailure)
    /\ [][NothingAfterAnswer]_vars

\* C17 witness: the first render failed at page.goto; the request was
\* answered 500 with that render issued once and no other step issued.
FirstRenderFailedOnce ==
    /\ failed = <<"pdfIndex", "goto">>
    /\ response.status = 500
    /\ Issued("pdfIndex") = 1
    /\ Issued("pdfIndex2") = 0 /\ Issued("pdfIndex3") = 0 /\ Issued("merge") = 0

-----------------------------------------------------------------------------
(* mergePdfBuffers on its own: called once on a list of buffers.           *)

MaxBuffers == 3
MaxBufferPages == 3

\* what can stand at position i of the list: null, undefined, a buffer of
\* length 0, bytes that are no PDF, or a PDF document of 1..MaxBufferPages
\* pages (its pages named after the position)
BuffersAt(i) ==
    {Null, Undefined, EmptyBuffer, CorruptBuffer}
      \cup {PdfBuffer(i, n) : n \in 1..MaxBufferPages}

BufferLists ==
    UNION {{bs \in [1..len -> UNION {BuffersAt(i) : i \in 1..len}] :
              \A i \in 1..len : bs[i] \in BuffersAt(i)} : len \in 0..MaxBuffers}

MergeInit ==
    /\ mergeIn \in BufferLists
    /\ mergeOut = Undefined
    /\ HandlerOff /\ ParseOff /\ FieldsOff /\ IrrOff /\ PayOff /\ PotOff

\* const merged = await mergePdfBuffers(mergeIn)
MergeCall ==
    /\ mergeOut = Undefined
    /\ mergeOut' = mergePdfBuffers(mergeIn)
    /\ UNCHANGED <<mergeIn, notMerge>>

MergeNext == MergeCall

SpecMerge == MergeInit /\ [][MergeNext]_vars

\* the positions of the list whose buffer is loaded
Loaded(bs) ==
    {i \in 1..Len(bs) : bs[i].t = "buffer" /\ bs[i].kind # "empty"}

RECURSIVE PageSum(_, _)
PageSum(bs, is) ==
    IF is = {} THEN 0
    ELSE LET i == CHOOSE j \in is : TRUE
         IN  Len(bs[i].pages) + PageSum(bs, is \ {i})

\* C5: when every buffer of the list that is neither null nor empty holds a
\* PDF document, mergePdfBuffers returns a document without raising; its
\* page count is the sum of the page counts of those buffers, its pages are
\* exactly their pages, and they stand in the order of the list and, within
\* one buffer, in the buffer's own order.
MergeSkipsEmpty ==
    (mergeOut # Undefined /\ \A i \in Loaded(mergeIn) : mergeIn[i].kind = "pdf")
      => /\ mergeOut.t = "buffer"
         /\ Len(mergeOut.pages) = PageSum(mergeIn, Loaded(mergeIn))
         /\ {mergeOut.pages[k] : k \in 1..Len(mergeOut.pages)}
              = UNION {{mergeIn[i].pages[j] : j \in 1..Len(mergeIn[i].pages)} :
                         i \in Loaded(mergeIn)}
         /\ \A k \in 1..Len(mergeOut.pages) : \A m \in 1..Len(mergeOut.pages) :
              k < m => \/ mergeOut.pages[k][1] < mergeOut.pages[m][1]
                       \/ /\ mergeOut.pages[k][1] = mergeOut.pages[m][1]
                          /\ mergeOut.pages[k][2] < mergeOut.pages[m][2]

\* C5: the list of a 2-page buffer, an empty buffer and a 3-page buffer has
\* been merged into a document of 5 pages.
MergedTwoEmptyThree ==
    /\ mergeIn = <<PdfBuffer(1, 2), EmptyBuffer, PdfBuffer(3, 3)>>
    /\ mergeOut.t = "buffer"
    /\ Len(mergeOut.pages) = 5

-----------------------------------------------------------------------------
(* The numeric parse on its own: toNum of part_001 and part_000 and num of *)
(* server.js, applied to a value or to the text the formatter made of a    *)
(* number.                                                                 *)

MaxTextLen == 3

\* the characters of the texts parsed: digits, the dot, the minus sign, a
\* currency symbol, a comma and a letter
TextChars == {"1", "0", ".", "-", "$", ",", "a"}

Texts == UNION {[1..len -> TextChars] : len \in 0..MaxTextLen}

\* the numbers handed to the formatter
Amounts ==
    {Zero, Num(5), Num(999), Num(1000), Num(-1000), Num(20874000),
     Lit(12345, 1), Lit(5, 1), NaN}

ParsedValues ==
    {Str(cs) : cs \in Texts} \cup {NumV(x) : x \in Amounts}
      \cup {Undefined, Null, Obj(<<>>), Obj([toString |-> Null])}

ParseInit ==
    /\ parseIn \in ParsedValues
    /\ parseOf = Undefined
    /\ parseOut = Undefined
    /\ parsePc = "value"
    /\ HandlerOff /\ MergeOff /\ FieldsOff /\ IrrOff /\ PayOff /\ PotOff

\* parseIn = formatCO(parseIn) for a number
Format ==
    /\ parsePc = "value"
    /\ parseIn.t = "num"
    /\ parseOf' = parseIn
    /\ parseIn' = formatCO(parseIn)
    /\ parsePc' = "formatted"
    /\ UNCHANGED <<parseOut, notParse>>

\* parseOut = toNum(parseIn)
ParseToNum ==
    /\ parsePc \in {"value", "formatted"}
    /\ parseOut' = toNum(parseIn)
    /\ parsePc' = "toNum"
    /\ UNCHANGED <<parseIn, parseOf, notParse>>

\* parseOut = num(parseIn), inside computeFields of server.js
ParseNum ==
    /\ parsePc \in {"value", "formatted"}
    /\ parseOut' = num(parseIn)
    /\ parsePc' = "num"
    /\ UNCHANGED <<parseIn, parseOf, notParse>>

\* parseOut = formatCO(parseIn) for the text formatCO returned: the final
\* formatting pass of computeFields over a field set by formatCO
FormatAgain ==
    /\ parsePc = "formatted"
    /\ parseOut' = formatCO(parseIn)
    /\ parsePc' = "twice"
    /\ UNCHANGED <<parseIn, parseOf, notParse>>

ParseNext == Format \/ FormatAgain \/ ParseToNum \/ ParseNum

SpecParse == ParseInit /\ [][ParseNext]_vars

\* v denotes no number: missing, null, the empty string, or a text without
\* any digit
DenotesNoNumber(v) ==
    \/ v.t \in {"undef", "null"}
    \/ v.t = "str" /\ \A i \in 1..Len(v.s) : ~IsDigit(v.s[i])

\* C8: the parse of a value that denotes no number is NaN, and the parse of
\* the text the formatter made of a finite number is that number.
ParseDenotes ==
    parsePc \in {"toNum", "num"}
      => /\ DenotesNoNumber(parseIn) => isNaN(parseOut)
         /\ (parseOf # Undefined /\ isFinite(parseOf.d))
              => NumEq(parseOut, parseOf.d)

\* C20: formatCO(formatCO(x)) = formatCO(x) for every number x: formatting
\* the text formatCO returned gives that text again.
FormatIdempotent ==
    parsePc = "twice" => parseOut = parseIn

-----------------------------------------------------------------------------
(* computeFields on its own: each of its three variants called once on an  *)
(* input mapping.                                                          *)

\* what a request can hold under ENERGIA or FACTURA: a number in digits, the
\* dot-grouped text of one, a text without digits, the empty string, null, a
\* JSON number
EnergiaValues ==
    {Str(<<"5", "0", "0">>), Str(<<"a", "b", "c">>), EmptyStr}
FacturaValues ==
    {Str(<<"3", "0", "0", "0", "0", "0">>), Str(<<"3", "0", "0", ".", "0", "0", "0">>),
     Str(<<"$">>), Null}

\* the mappings with ENERGIA and FACTURA only, each present or not
BaseInputs ==
    {<<>>}
      \cup {[ENERGIA |-> e] : e \in EnergiaValues}
      \cup {[FACTURA |-> f] : f \in FacturaValues}
      \cup {[ENERGIA |-> e, FACTURA |-> f] : e \in EnergiaValues, f \in FacturaValues}

\* a field supplied by the request next to ENERGIA and FACTURA
SuppliedFields ==
    {[PANELES |-> Str(<<"1", "0">>)],
     [POTENCIA |-> Str(<<"3">>)],
     [INVERSORES |-> Str(<<"2">>)],
     [INVERSION_TOTAL |-> Str(<<"1", "0", "0", "0", "0", "0", "0">>)],
     [BENEFICIO_TRIBUTARIO |-> Str(<<"9", "0", "0">>)],
     [AHORRO_TOTAL |-> Str(<<"5", "0", "0">>)],
     [TIR |-> Str(<<"1", "5", "%">>)],
     [BC |-> Str(<<"2">>)],
     [RECUPERACION_INVERSION |-> Str(<<"4">>)],
     [IVA_MATERIALES |-> Str(<<"7", "0", "0">>)],
     [PAGO1 |-> Str(<<"1", "0", "0">>)],
     [PAGO2 |-> Str(<<"1", ".", "0", "0", "0", ".", "0", "0", "0">>)],
     [FECHA |-> Str(<<"h", "o", "y">>)],
     [MATERIALES_BASE |-> NumV(Num(1000))],
     [ENERGIA |-> NumV(Num(440))],
     [ENERGIA |-> Obj(<<>>)],
     [ENERGIA |-> Obj([kwh |-> NumV(Num(440))])],
     [ENERGIA |-> Obj([toString |-> NumV(Num(1))])],
     [resultados |-> Str(<<"a", "b", "c">>)],
     [resultados |-> Null],
     [resultados |-> Obj(<<>>)],
     [resultados |-> Obj(("PROYECTO!E6" :> NumV(Lit(388007, 5)))
                           @@ ("PROYECTO!E7" :> NumV(Lit(31, 1)))
                           @@ ("PROYECTO!E17" :> NumV(Lit(1164021164, 2)))
                           @@ ("PROYECTO!F6" :> NumV(Num(9)))
                           @@ ("VPN+TIR!E55" :> NumV(Lit(3759, 4))))],
     [resultados |-> Obj(("PROYECTO!E6" :> Obj(<<>>)))],
     [resultados |-> Obj(("PROYECTO!E6" :> Obj([toString |-> Null])))]}

FieldInputs ==
    BaseInputs
      \cup {extra @@ [ENERGIA |-> Str(<<"5", "0", "0">>),
                      FACTURA |-> Str(<<"3", "0", "0", "0", "0", "0">>)] :
              extra \in SuppliedFields}

FieldsInit ==
    /\ fieldsIn \in FieldInputs
    /\ fieldsBy = ""
    /\ fieldsOut = Undefined
    /\ HandlerOff /\ MergeOff /\ ParseOff /\ IrrOff /\ PayOff /\ PotOff

\* computeFields of server.js
ComputeServer ==
    /\ fieldsBy = ""
    /\ fieldsBy' = "server.js"
    /\ fieldsOut' = computeFields(fieldsIn)
    /\ UNCHANGED <<fieldsIn, notFields>>

\* computeFields of part_001
ComputeFinancial ==
    /\ fieldsBy = ""
    /\ fieldsBy' = "part_001"
    /\ fieldsOut' = computeFieldsFinancial(fieldsIn)
    /\ UNCHANGED <<fieldsIn, notFields>>

\* computeFields of part_000
ComputeSheet ==
    /\ fieldsBy = ""
    /\ fieldsBy' = "part_000"
    /\ fieldsOut' = computeFieldsSheet(fieldsIn)
    /\ UNCHANGED <<fieldsIn, notFields>>

FieldsNext == ComputeServer \/ ComputeFinancial \/ ComputeSheet

SpecFields == FieldsInit /\ [][FieldsNext]_vars

\* the fields computeFields can derive or default
DerivedFields ==
    {"POTENCIA", "PANELES", "INVERSORES", "INVERSION_TOTAL",
     "BENEFICIO_TRIBUTARIO", "AHORRO_TOTAL", "TIR", "BC",
     "RECUPERACION_INVERSION", "IVA_MATERIALES", "PAGO1", "PAGO2", "PAGO3",
     "PAGO4"}

\* a returned field that came from the input value v: v itself, or the
\* thousands-grouped text of v
FromInput(v) == {v, formatCO(v)}

\* C1: every derived field present with a non-empty value in the input of
\* computeFields (part_001, part_000) is returned with the input's value,
\* as given or thousands-grouped, never a derived value or a default.
InputWins ==
    (fieldsBy \in {"part_001", "part_000"} /\ fieldsOut # Raised)
      => \A F \in DerivedFields :
           (F \in DOMAIN fieldsIn /\ fieldsIn[F] # EmptyStr)
             => fieldsOut[F] \in FromInput(fieldsIn[F])

\* C7: computeFields (part_001, part_000) returns a mapping for every
\* input and raises no error.
NeverFails ==
    fieldsBy \in {"part_001", "part_000"} => fieldsOut # Raised

\* v is missing or unparsable: absent, null, the empty string, or a text
\* without any digit
Unparsable(o, key) == key \notin DOMAIN o \/ DenotesNoNumber(o[key])

\* C9: when the input of computeFields (part_001) holds nothing but ENERGIA
\* and FACTURA, every field that depends on a missing or unparsable one of
\* them is the empty string in the output, and the fields derived from a
\* parsable ENERGIA are computed whatever FACTURA holds.
SilentDegradation ==
    (fieldsBy = "part_001" /\ DOMAIN fieldsIn \subseteq {"ENERGIA", "FACTURA"})
      => /\ Unparsable(fieldsIn, "ENERGIA")
              => \A F \in {"POTENCIA", "PANELES", "INVERSORES", "INVERSION_TOTAL",
                           "BENEFICIO_TRIBUTARIO", "PAGO1", "PAGO2", "PAGO3",
                           "PAGO4"} : fieldsOut[F] = EmptyStr
         /\ Unparsable(fieldsIn, "FACTURA")
              => \A F \in {"AHORRO_TOTAL", "TIR", "RECUPERACION_INVERSION", "BC"} :
                   fieldsOut[F] = EmptyStr
         /\ ~Unparsable(fieldsIn, "ENERGIA")
              => \A F \in {"POTENCIA", "PANELES", "INVERSORES", "INVERSION_TOTAL",
                           "BENEFICIO_TRIBUTARIO"} : fieldsOut[F] # EmptyStr

-----------------------------------------------------------------------------
(* irr on its own, one loop iteration at a time.                           *)

MaxFlows == 3
MaxAmount == 2

\* the cash-flow sequences of 2..MaxFlows whole amounts
FlowLists ==
    UNION {[1..len -> {Num(a) : a \in -MaxAmount..MaxAmount}] : len \in 2..MaxFlows}

IrrInit ==
    /\ irrFlows \in FlowLists
    /\ irrPc = "newton"
    /\ newton = NewtonStart
    /\ bisect = Undefined
    /\ irrOut = Undefined
    /\ HandlerOff /\ MergeOff /\ ParseOff /\ FieldsOff /\ PayOff /\ PotOff

\* one iteration of the Newton-Raphson loop
NewtonIterate ==
    /\ irrPc = "newton" /\ newton.st = "run" /\ newton.i < maxIter
    /\ newton' = NewtonStep(irrFlows, newton)
    /\ UNCHANGED <<irrFlows, irrPc, bisect, irrOut, notIrr>>

\* return rNext
NewtonReturn ==
    /\ irrPc = "newton" /\ newton.st = "ret"
    /\ irrOut' = newton.rNext
    /\ irrPc' = "done"
    /\ UNCHANGED <<irrFlows, newton, bisect, notIrr>>

\* the loop is left by break or after maxIter iterations: the bracket
NewtonGivesUp ==
    /\ irrPc = "newton"
    /\ newton.st = "brk" \/ (newton.st = "run" /\ newton.i >= maxIter)
    /\ bisect' = BisectStart(irrFlows)
    /\ irrPc' = "bisect"
    /\ UNCHANGED <<irrFlows, newton, irrOut, notIrr>>

\* one halving of the bracket
BisectIterate ==
    /\ irrPc = "bisect" /\ bisect.st = "run" /\ bisect.i < maxBisect
    /\ bisect' = BisectStep(irrFlows, bisect)
    /\ UNCHANGED <<irrFlows, irrPc, newton, irrOut, notIrr>>

\* return mid
BisectReturn ==
    /\ irrPc = "bisect" /\ bisect.st = "ret"
    /\ irrOut' = bisect.mid
    /\ irrPc' = "done"
    /\ UNCHANGED <<irrFlows, newton, bisect, notIrr>>

\* return NaN: no root bracketed, or the halvings are used up
BisectGivesUp ==
    /\ irrPc = "bisect"
    /\ bisect.st = "nan" \/ (bisect.st = "run" /\ bisect.i >= maxBisect)
    /\ irrOut' = NaN
    /\ irrPc' = "done"
    /\ UNCHANGED <<irrFlows, newton, bisect, notIrr>>

IrrNext ==
    \/ NewtonIterate \/ NewtonReturn \/ NewtonGivesUp
    \/ BisectIterate \/ BisectReturn \/ BisectGivesUp

SpecIrr == IrrInit /\ [][IrrNext]_vars

\* flows has a sign change: a negative and a positive amount
SignChange(flows) ==
    /\ \E t \in 1..Len(flows) : Lt(flows[t], Zero)
    /\ \E t \in 1..Len(flows) : Gt(flows[t], Zero)

\* C10 as stated: for flows with a sign change irr returns a rate whose net
\* present value is within 1e-7 of zero.
IrrFindsRoot ==
    (irrPc = "done" /\ SignChange(irrFlows))
      => /\ isFinite(irrOut)
         /\ Lt(Abs(npv(irrOut, irrFlows)), Lit(1, 7))

\* C10: irr returns NaN or a rate; a rate from the bisection fallback lies
\* in [-0.9, 5] and its net present value is within 1e-7 of zero; a rate
\* from the Newton-Raphson phase is within 1e-7 of the iterate before it;
\* the step-wise run returns what irr(flows) returns.
IrrWithinTolerance ==
    irrPc = "done"
      => /\ irrOut = irr(irrFlows)
         /\ \/ isNaN(irrOut) /\ bisect # Undefined
            \/ /\ bisect # Undefined
               /\ isFinite(irrOut)
               /\ Ge(irrOut, Lit(-9, 1)) /\ Le(irrOut, Num(5))
               /\ Lt(Abs(npv(irrOut, irrFlows)), Lit(1, 7))
            \/ /\ bisect = Undefined
               /\ isFinite(irrOut)
               /\ Lt(Abs(Sub(irrOut, newton.r)), Lit(1, 7))

\* C10: irr has returned a rate from the bisection fallback for flows with
\* a sign change.
RateFromBisection ==
    /\ irrPc = "done"
    /\ SignChange(irrFlows)
    /\ bisect # Undefined
    /\ isFinite(irrOut)

\* C11: for flows that never change sign (all entries >= 0 or all
\* entries <= 0) irr returns NaN.
IrrUndefinedWithoutSignChange ==
    (irrPc = "done" /\ ~SignChange(irrFlows)) => isNaN(irrOut)

-----------------------------------------------------------------------------
(* paybackYears on its own: called once on a sequence of cash flows.       *)

MaxPayFlows == 3

\* the amounts of the flows: an outflow of 100 or 50, nothing, an inflow of
\* 50 or 60
PayAmounts == {-100, -50, 0, 50, 60}

PayLists == UNION {[1..len -> PayAmounts] : len \in 1..MaxPayFlows}

PayInit ==
    /\ payFlows \in PayLists
    /\ payOut = Undefined
    /\ HandlerOff /\ MergeOff /\ ParseOff /\ FieldsOff /\ IrrOff /\ PotOff

\* const pb = paybackYears(flows)
PaybackCall ==
    /\ payOut = Undefined
    /\ payOut' = paybackYears([t \in 1..Len(payFlows) |-> Num(payFlows[t])])
    /\ UNCHANGED <<payFlows, notPay>>

PayNext == PaybackCall

SpecPayback == PayInit /\ [][PayNext]_vars

\* the sum of the first n flows
RECURSIVE Cumulative(_, _)
Cumulative(flows, n) ==
    IF n = 0 THEN 0 ELSE Cumulative(flows, n - 1) + flows[n]

\* the years (0 for the first flow) at whose end the cumulative flow is >= 0
RecoveredYears(flows) ==
    {y \in 0..Len(flows) - 1 : Cumulative(flows, y + 1) >= 0}

\* the first of them
RecoveryYear(flows) ==
    CHOOSE y \in RecoveredYears(flows) : \A z \in RecoveredYears(flows) : y <= z

\* x is y - 1 plus the part of the flow of year y that brings the
\* cumulative flow before it, prev, to 0 (to nine decimals)
Interpolated(x, y, flow, prev) ==
    /\ isFinite(x)
    /\ IF flow = 0 THEN NumEq(x, Num(y - 1))
       ELSE Lt(Abs(Sub(Mul(x, Num(flow)), Num((y - 1) * flow - prev))),
               Lit(1, 9))

\* C12: paybackYears returns NaN when the cumulative flow stays negative
\* over the whole horizon; otherwise, for the first year t whose cumulative
\* flow is >= 0, it returns t - 1 plus the fraction of the flow of year t
\* that brings the cumulative flow to 0; flows [-100, 60, 60] give a value
\* strictly between 1 and 2, about 1.67.
PaybackInterpolates ==
    payOut # Undefined
      => /\ IF RecoveredYears(payFlows) = {} THEN isNaN(payOut)
            ELSE Interpolated(payOut, RecoveryYear(payFlows),
                              payFlows[RecoveryYear(payFlows) + 1],
                              Cumulative(payFlows, RecoveryYear(payFlows)))
         /\ payFlows = <<-100, 60, 60>>
              => /\ Gt(payOut, Num(1)) /\ Lt(payOut, Num(2))
                 /\ Lt(Abs(Sub(payOut, Lit(167, 2))), Lit(1, 2))

\* C12: paybackYears has returned 2 for the flows -100, +50, +50.
PaybackOfFiftyPerYear ==
    payFlows = <<-100, 50, 50>> /\ payOut # Undefined /\ NumEq(payOut, Num(2))

\* C18: paybackYears returns NaN or a value in [0, N] for flows of N + 1
\* entries.
PaybackInRange ==
    payOut # Undefined
      => \/ isNaN(payOut)
         \/ Ge(payOut, Zero) /\ Le(payOut, Num(Len(payFlows) - 1))

-----------------------------------------------------------------------------
(* Further properties of computeFields called once on an input mapping.    *)

\* C13: for every input of computeFields (part_001) the entry at index 0 of
\* the cash flows built is a number and <= 0.
FirstFlowIsOutflow ==
    (fieldsBy = "part_001" /\ fieldsOut # Raised)
      => /\ isFinite(flowsOf(fieldsIn)[1])
         /\ Le(flowsOf(fieldsIn)[1], Zero)

\* the number a thousands-grouped text denotes: the text without its dots
Ungrouped(v) == StringToNumber(SelectSeq(v.s, LAMBDA ch : ch # "."))

\* the installments and their shares of INVERSION_TOTAL, in percent
PagoShares == [PAGO1 |-> 30, PAGO2 |-> 20, PAGO3 |-> 40, PAGO4 |-> 10]

\* the returned text w keeps the supplied value v: v itself, or its
\* thousands-grouped text when that is not empty
Kept(v, w) == w = v \/ (w # EmptyStr /\ w = formatCO(v))

\* C14: when the returned INVERSION_TOTAL denotes a number, computeFields
\* (server.js, part_001) returns every PAGOk that the input does not supply
\* as the thousands-grouped text of its share of INVERSION_TOTAL rounded to
\* the nearest integer, and every PAGOk supplied non-empty as the input's
\* value, as given or thousands-grouped.
PagosDerived ==
    (/\ fieldsBy \in {"server.js", "part_001"}
     /\ fieldsOut # Raised
     /\ fieldsOut.INVERSION_TOTAL # EmptyStr)
      => \A P \in DOMAIN PagoShares :
           IF P \in DOMAIN fieldsIn /\ fieldsIn[P] # EmptyStr
           THEN Kept(fieldsIn[P], fieldsOut[P])
           ELSE fieldsOut[P]
                  = formatCO(NumV(MathRound(Mul(Ungrouped(fieldsOut.INVERSION_TOTAL),
                                                Lit(PagoShares[P], 2)))))

-----------------------------------------------------------------------------
(* POTENCIA as a function of ENERGIA: computeFields called twice, on two   *)
(* inputs that hold nothing but ENERGIA.                                   *)

\* the monthly energies, in kWh, as the request writes them
Energias ==
    {<<"1">>, <<"2">>, <<"1", "0", "0">>, <<"4", "9", "9", ".", "9">>,
     <<"5", "0", "0">>, <<"5", "0", "0", ".", "1">>, <<"5", "0", "1">>,
     <<"1", "0", "0", "0">>}

PotInit ==
    /\ potIn \in {<<Str(e1), Str(e2)>> : e1 \in Energias, e2 \in Energias}
    /\ Le(toNum(potIn[1]), toNum(potIn[2]))
    /\ potBy = ""
    /\ potOut = <<>>
    /\ HandlerOff /\ MergeOff /\ ParseOff /\ FieldsOff /\ IrrOff /\ PayOff

\* the next call of computeFields of server.js
PotenciaServer ==
    /\ potBy \in {"", "server.js"}
    /\ Len(potOut) < 2
    /\ potBy' = "server.js"
    /\ potOut' = Append(potOut,
                        computeFields([ENERGIA |-> potIn[Len(potOut) + 1]]).POTENCIA)
    /\ UNCHANGED <<potIn, notPot>>

\* the next call of computeFields of part_001
PotenciaFinancial ==
    /\ potBy \in {"", "part_001"}
    /\ Len(potOut) < 2
    /\ potBy' = "part_001"
    /\ potOut' = Append(potOut,
                        computeFieldsFinancial([ENERGIA |-> potIn[Len(potOut) + 1]]).POTENCIA)
    /\ UNCHANGED <<potIn, notPot>>

PotNext == PotenciaServer \/ PotenciaFinancial

SpecPotencia == PotInit /\ [][PotNext]_vars

\* POTENCIA p is ENERGIA e * 1.2 / (4.2 * 30 * 0.81) to two decimals
TwoDecimalsOf(p, e) ==
    Le(Abs(Sub(Mul(p, Lit(10206, 2)), Mul(e, Lit(12, 1)))), Lit(5104, 4))

\* C15 as stated: e1 < e2 implies POTENCIA(e1) < POTENCIA(e2).
PotenciaIncreasing ==
    (Len(potOut) = 2 /\ Lt(toNum(potIn[1]), toNum(potIn[2])))
      => Lt(toNum(potOut[1]), toNum(potOut[2]))

\* C15: POTENCIA is ENERGIA * 1.2 / (4.2 * 30 * 0.81) rounded to two
\* decimals; the same ENERGIA gives the same POTENCIA; e1 < e2 implies
\* POTENCIA(e1) <= POTENCIA(e2), and POTENCIA(e1) < POTENCIA(e2) when
\* e2 - e1 >= 1.
PotenciaMonotone ==
    /\ \A i \in 1..Len(potOut) : TwoDecimalsOf(toNum(potOut[i]), toNum(potIn[i]))
    /\ Len(potOut) = 2
         => /\ potIn[1] = potIn[2] => potOut[1] = potOut[2]
            /\ Le(toNum(potOut[1]), toNum(potOut[2]))
            /\ Ge(Sub(toNum(potIn[2]), toNum(potIn[1])), Num(1))
                 => Lt(toNum(potOut[1]), toNum(potOut[2]))

\* C15: computeFields has returned a larger POTENCIA for the larger of two
\* energies.
LargerPotencia ==
    /\ potIn = <<Str(<<"5", "0", "0">>), Str(<<"5", "0", "1">>)>>
    /\ Len(potOut) = 2
    /\ Lt(toNum(potOut[1]), toNum(potOut[2]))

-----------------------------------------------------------------------------
(* Termination and protocol of irr: the step-wise run under weak fairness  *)
(* of its steps: irr is synchronous code, nothing suspends its loops.      *)

\* a loop iteration or the step from the first loop to the bracket can be
\* taken
ComputingEnabled ==
    \/ irrPc = "newton" /\ newton.st \in {"run", "brk"}
    \/ irrPc = "bisect" /\ bisect.st = "run" /\ bisect.i < maxBisect

\* a step of SpecIrr that changes newton or bisect: NewtonIterate,
\* NewtonGivesUp or BisectIterate
ComputingStep == ComputingEnabled /\ <<newton, bisect>>' # <<newton, bisect>>

\* weak fairness of the returning steps, and weak fairness of the computing
\* steps with their enabling condition and their effect written out
SpecIrrFair ==
    /\ SpecIrr
    /\ WF_vars(NewtonReturn \/ BisectReturn \/ BisectGivesUp)
    /\ ([]<>~ComputingEnabled) \/ ([]<><<ComputingStep>>_vars)

\* the Newton-Raphson phase: at most 100 iterations, left early only when
\* the derivative is below 1e-12 or the next iterate is not finite
NewtonProtocol ==
    /\ newton.i <= 100
    /\ newton.st = "brk"
         => \/ Lt(Abs(dNPV(newton.r, irrFlows)), Lit(1, 12))
            \/ ~isFinite(Sub(newton.r, Div(npv(newton.r, irrFlows),
                                           dNPV(newton.r, irrFlows))))

\* the bisection phase: started only when the Newton-Raphson phase returned
\* no rate, over the bracket [-0.9, 5], skipped with NaN when npv has the
\* same sign at both ends, at most 200 halvings, each leaving a bracket
\* inside [-0.9, 5] at whose ends the values do not have the same sign
BisectProtocol ==
    bisect # Undefined
      => /\ newton.st # "ret"
         /\ bisect.i <= 200
         /\ bisect.i = 0
              => /\ bisect.low = Lit(-9, 1) /\ bisect.high = Num(5)
                 /\ bisect.fLow = npv(bisect.low, irrFlows)
                 /\ bisect.fHigh = npv(bisect.high, irrFlows)
                 /\ bisect.st = "nan" <=> Gt(Mul(bisect.fLow, bisect.fHigh), Zero)
         /\ bisect.st = "nan" => bisect.i = 0 /\ (irrPc = "done" => isNaN(irrOut))
         /\ bisect.st = "run"
              => /\ Le(Lit(-9, 1), bisect.low) /\ Lt(bisect.low, bisect.high)
                 /\ Le(bisect.high, Num(5))
                 /\ ~Gt(Mul(bisect.fLow, bisect.fHigh), Zero)

\* a halving moves one end of the bracket, and the value kept for the moved
\* end is npv there
HalvingKeepsValues ==
    (irrPc = "bisect" /\ bisect'.st = "run" /\ bisect' # bisect)
      => /\ bisect'.i = bisect.i + 1
         /\ bisect'.low = bisect.low \/ bisect'.high = bisect.high
         /\ bisect'.low # bisect.low
              => bisect'.fLow = npv(bisect'.low, irrFlows)
         /\ bisect'.high # bisect.high
              => bisect'.fHigh = npv(bisect'.high, irrFlows)

-----------------------------------------------------------------------------
(* The installments of an integer investment: computeFields of server.js   *)
(* called once on an input that supplies INVERSION_TOTAL only.             *)

MaxInversion == 60

\* whole investments: small ones, and the ones that follow the investment
\* derived for 500 kWh
Inversions == 1..MaxInversion \cup {20874000 + k : k \in 0..MaxInversion}

PagosInit ==
    /\ fieldsIn \in {[INVERSION_TOTAL |-> NumStr(Num(n))] : n \in Inversions}
    /\ fieldsBy = ""
    /\ fieldsOut = Undefined
    /\ HandlerOff /\ MergeOff /\ ParseOff /\ IrrOff /\ PayOff /\ PotOff

SpecPagos == PagosInit /\ [][ComputeServer]_vars

\* the sum of the four returned installments
PagoSum(out) ==
    Add(Add(Ungrouped(out.PAGO1), Ungrouped(out.PAGO2)),
        Add(Ungrouped(out.PAGO3), Ungrouped(out.PAGO4)))

\* C19: when PAGO1..PAGO4 are all derived by computeFields from an integer
\* INVERSION_TOTAL, the four installments add up to exactly INVERSION_TOTAL.
PagosAddUp ==
    (fieldsBy = "server.js" /\ fieldsOut # Raised)
      => NumEq(PagoSum(fieldsOut), toNum(fieldsIn.INVERSION_TOTAL))

====
